---- MODULE Spec2Model ----
(***************************************************************************)
(* The M-Pesa STK-push payment lifecycle of the back-office API:           *)
(* controllers/mpesaController.js (initiateSubscription, mpesaCallback,    *)
(* checkPaymentStatus) on top of services/mpesaService.js (initiateSTKPush,*)
(* handleCallback) and the tables users and mpesa_transactions of          *)
(* schema.sql.                                                             *)
(*                                                                         *)
(* Every request handler is an async function: between two awaited store   *)
(* calls other handlers run.  One action of the model is one store call    *)
(* together with the synchronous code that follows it up to the next       *)
(* store call (or the response).                                           *)
(***************************************************************************)
EXTENDS Integers, Sequences, FiniteSets, TLC

VARIABLES
    supabase,     \* config/supabase.js: "client", or "null" when not configured
    TEST_MODE,    \* mpesaService.js: placeholder credentials => simulation
    users,        \* table users: id -> row
    txns,         \* table mpesa_transactions: sequence of rows (never deleted)
    issued,       \* checkout request ids handed out by initiateSTKPush so far
    sub,          \* initiateSubscription requests in flight: process -> local state
    cb,           \* mpesaCallback requests in flight: process -> local state
    timers,       \* pending setTimeout auto-completions (TEST MODE)
    replied,      \* the subscribe request answered by the last step, if any
    answered,     \* the callback request answered by the last step, if any
    query,        \* the status request answered by the last step, if any
    effects,      \* history: checkout id -> number of subscription writes applied
    nSub,         \* number of initiateSubscription requests received
    nCb,          \* number of callback requests received
    subscriber,   \* formatPhoneNumber: the subscriber number the caller means
    rawPhone,     \* formatPhoneNumber: the argument, a sequence of characters
    formattedPhone,  \* formatPhoneNumber: the value returned, << >> before the call
    transactions, \* table transactions: id -> row, for the ids stored
    synced,       \* the POST /api/sync request answered by the last step, if any
    listed,       \* the GET /api/transactions request answered by the last step, if any
    signups,      \* signup requests in flight: process -> local state
    registered,   \* the signup request answered by the last step, if any
    nSignup,      \* number of signup requests received
    accounts,     \* history: the signups answered 201: phone number, PIN, user id
    logins,       \* login requests in flight: process -> local state
    logged,       \* the login request answered last
    nLogin,       \* number of login requests received
    verified,     \* the verify or profile request answered last
    nVerify,      \* number of verify and profile requests received
    sessions,     \* history: the tokens returned by logins answered 200
    lapsed,       \* the tokens whose expiresIn has passed
    purchases,    \* table purchases: id -> row
    purchaseItems,  \* table purchase_items: set of rows
    purchaseSeq,  \* number of purchase ids the table has generated
    buying,       \* POST /api/purchases requests in flight: process -> local state
    bought,       \* the POST /api/purchases request answered last
    nPurchase,    \* number of POST /api/purchases requests received
    debts,        \* table debts: id -> row
    debtSeq,      \* number of debt ids the table has generated
    debtReqs,     \* requests of routes/debts.js in flight: process -> local state
    debtAnswer,   \* the request of routes/debts.js answered last
    nDebt,        \* number of requests of routes/debts.js received
    otp_codes,    \* table otp_codes: id -> row
    otpCalls,     \* calls of createOTP and verifyOTP in flight: process -> local state
    otpResult,    \* the call of createOTP or verifyOTP that returned last
    nCreateOtp,   \* number of calls of createOTP
    nVerifyOtp,   \* number of calls of verifyOTP
    failures,     \* history: OTP id -> number of calls answered 'Invalid OTP code.'
    used,         \* history: the OTP ids a call of verifyOTP has accepted
    otpFaults     \* history: number of store calls of the OTP service answered with an error

\* the state of the payment handlers, and that of the phone number formatter
mpesaVars == << supabase, TEST_MODE, users, txns, issued, sub, cb, timers,
                replied, answered, query, effects, nSub, nCb >>
phoneVars == << subscriber, rawPhone, formattedPhone >>
syncVars  == << transactions, synced, listed >>
authVars  == << signups, registered, nSignup, accounts >>
loginVars == << logins, logged, nLogin, verified, nVerify, sessions, lapsed >>

purchaseVars == << purchases, purchaseItems, purchaseSeq, buying, bought, nPurchase >>

debtVars == << debts, debtSeq, debtReqs, debtAnswer, nDebt >>
otpVars  == << otp_codes, otpCalls, otpResult, nCreateOtp, nVerifyOtp, failures, used,
              otpFaults >>

vars == << mpesaVars, phoneVars, syncVars, authVars, loginVars, purchaseVars, debtVars,
           otpVars >>

\* the state of the payment handlers without the store client and the users
paymentVars == << TEST_MODE, txns, issued, sub, cb, timers, replied, answered, query,
                  effects, nSub, nCb >>

\* what the handlers of one group leave alone
notMpesa == << phoneVars, syncVars, authVars, loginVars, purchaseVars, debtVars, otpVars >>
notPhone == << mpesaVars, syncVars, authVars, loginVars, purchaseVars, debtVars, otpVars >>
notSync  == << mpesaVars, phoneVars, authVars, loginVars, purchaseVars, debtVars, otpVars >>
notAuth  == << paymentVars, phoneVars, syncVars, loginVars, purchaseVars, debtVars, otpVars >>
notLogin == << paymentVars, phoneVars, syncVars, authVars, purchaseVars, debtVars, otpVars >>
notPurchase == << mpesaVars, phoneVars, syncVars, authVars, loginVars, debtVars, otpVars >>
notDebt  == << mpesaVars, phoneVars, syncVars, authVars, loginVars, purchaseVars, otpVars >>
notOtp   == << mpesaVars, phoneVars, syncVars, authVars, loginVars, purchaseVars, debtVars >>

----------------------------------------------------------------------------
(* Bounds of the model *)

MaxSubscribe == 2      \* initiateSubscription requests per behaviour
MaxCallbacks == 2      \* callback requests per behaviour
MaxRequests  == 3      \* subscribe and callback requests per behaviour

MaxSubProcs  == 1      \* subscribe requests in flight at the same time
MaxCbProcs   == 2      \* callback requests in flight at the same time

SubscriberLen == 3     \* digits of a subscriber number (9 in Kenya)

MaxBatch == 2          \* transactions in the body of one POST /api/sync

MaxSignups     == 3    \* signup requests per behaviour
MaxSignupProcs == 2    \* signup requests in flight at the same time

SignupProcs == 1 .. MaxSignupProcs

MaxLogins     == 2     \* login requests per behaviour
MaxLoginProcs == 2     \* login requests in flight at the same time
MaxVerifies   == 2     \* verify and profile requests per behaviour

LoginProcs == 1 .. MaxLoginProcs

MaxPurchases     == 2  \* POST /api/purchases requests per behaviour
MaxPurchaseProcs == 2  \* POST /api/purchases requests in flight at the same time
MaxItems         == 2  \* items in the body of one POST /api/purchases

PurchaseProcs == 1 .. MaxPurchaseProcs

MaxDebtRequests == 4   \* requests of routes/debts.js per behaviour
MaxDebtProcs    == 2   \* requests of routes/debts.js in flight at the same time
MaxDebts        == 2   \* debts created per behaviour

DebtProcs == 1 .. MaxDebtProcs

MaxCreateOtp == 2      \* calls of createOTP per behaviour
MaxVerifyOtp == 6      \* calls of verifyOTP per behaviour
MaxOtpProcs  == 2      \* calls of createOTP and verifyOTP in flight at the same time
MaxOtpFaults == 1      \* store calls of the OTP service answered with an error

OtpProcs == 1 .. MaxOtpProcs

SubProcs == 1 .. MaxSubProcs
CbProcs  == 1 .. MaxCbProcs

----------------------------------------------------------------------------
(* Values *)

Null      == "null"        \* SQL NULL / JS null
Undefined == "undefined"   \* JS undefined: JSON.stringify drops such a key

UserIds == {"u1", "u2"}
PhoneOf == [u \in UserIds |-> IF u = "u1" THEN "0711111111" ELSE "0722222222"]

\* req.body.phoneNumber: a registered number, an unregistered one, or missing
PhoneInputs == {"0711111111", "0722222222", "0799999999", Undefined}
\* names every JS object literal inherits from Object.prototype
InheritedKeys == {"toString"}
\* req.body.planId: the two priced plans, an unpriced one, the name of an
\* inherited member, or missing
PlanInputs  == {"basic", "premium", "gold", Undefined} \cup InheritedKeys

\* ids initiateSTKPush can hand out: `TEST_CO_...` in TEST MODE, otherwise the
\* provider's CheckoutRequestID
TestIds == {"TEST_CO_1", "TEST_CO_2"}
LiveIds == {"ws_CO_1", "ws_CO_2"}
CheckoutIds == TestIds \cup LiveIds
IdOrder == [ id \in CheckoutIds |-> IF id \in {"TEST_CO_1", "ws_CO_1"} THEN 1 ELSE 2 ]

Receipts == {"RCPT1"}
Dates    == {"20240101120000"}
Descs    == {"Request cancelled by user"}

\* `TEST_${Date.now()}` and new Date().toISOString() of the auto-completion
TestReceipt == "TEST_1700000000000"
TestDate    == "2024-01-01T12:00:05.000Z"

----------------------------------------------------------------------------
(* Table mpesa_transactions *)

\* the row initiateSubscription inserts
NewTransaction(userId, checkoutId, planId, amount) ==
    [ user_id              |-> userId,
      checkout_request_id  |-> checkoutId,
      amount               |-> amount,
      account_reference    |-> planId,
      status               |-> "pending",
      mpesa_receipt_number |-> Null,
      transaction_date     |-> Null,
      result_desc          |-> Null ]

\* .eq('checkout_request_id', id): the indices of the matching rows
Matching(t, id) == { i \in DOMAIN t : t[i].checkout_request_id = id }

\* an insert into a column without the UNIQUE constraint
InsertWithoutUnique(t, row) == FALSE

\* .insert([row]) under checkout_request_id TEXT UNIQUE
InsertViolatesUnique(t, row) == Matching(t, row.checkout_request_id) # {}

\* amount INTEGER NOT NULL CHECK (amount > 0); a value JSON cannot carry (a
\* function) is not sent and the column would be NULL
InsertViolatesCheck(row) == ~(row.amount > 0)

InsertTransaction(t, row) == Append(t, row)

\* .update(patch): keys whose value is undefined are not sent
Patch(row, patch) ==
    [ f \in DOMAIN row |->
        IF f \in DOMAIN patch /\ patch[f] # Undefined THEN patch[f] ELSE row[f] ]

\* the update written as an upsert: a row is made up when none matches
UpsertTransactions(t, id, patch) ==
    IF Matching(t, id) = {}
    THEN Append(t, Patch([ user_id |-> Null, checkout_request_id |-> id, amount |-> 0,
                           account_reference |-> Null, status |-> "pending",
                           mpesa_receipt_number |-> Null, transaction_date |-> Null,
                           result_desc |-> Null ], patch))
    ELSE [ i \in DOMAIN t |-> IF i \in Matching(t, id) THEN Patch(t[i], patch) ELSE t[i] ]

\* .update(patch).eq('checkout_request_id', id)
UpdateTransactions(t, id, patch) ==
    [ i \in DOMAIN t |-> IF i \in Matching(t, id) THEN Patch(t[i], patch) ELSE t[i] ]

\* .select(...).eq('checkout_request_id', id).single(): data is null unless
\* exactly one row matches
HasSingle(t, id) == Cardinality(Matching(t, id)) = 1
SingleRow(t, id) == t[CHOOSE i \in Matching(t, id) : TRUE]

----------------------------------------------------------------------------
(* Table users *)

\* bcrypt.hash(pin, 10)
HashPin(pin) == << "bcrypt", pin >>

\* last_login TIMESTAMP WITH TIME ZONE: NULL until the first login
NeverLoggedIn == 0

\* the row signup inserts
SignupRow(businessName, phoneNumber, pin) ==
    [ business_name |-> businessName, phone_number |-> phoneNumber,
      pin |-> HashPin(pin), subscription_status |-> "trial", is_verified |-> TRUE,
      last_login |-> NeverLoggedIn ]

\* a user who signed up earlier
NewUser(phone) == SignupRow("Shop", phone, << "1", "2", "3", "4" >>)

\* .from('users').select('id').eq('phone_number', phone).single()
UsersWithPhone(u, phone) == { id \in DOMAIN u : u[id].phone_number = phone }
HasUser(u, phone) == Cardinality(UsersWithPhone(u, phone)) = 1
UserId(u, phone)  == CHOOSE id \in UsersWithPhone(u, phone) : TRUE

\* CHECK (subscription_status IN ('trial', 'basic', 'premium'))
SubscriptionStatuses == {"trial", "basic", "premium"}

\* the update without its .eq('id', id) filter
UpdateEverySubscription(u, id, plan) ==
    IF plan \notin SubscriptionStatuses THEN u
    ELSE [ x \in DOMAIN u |-> [ u[x] EXCEPT !.subscription_status = plan ] ]

\* .from('users').update({subscription_status: plan}).eq('id', id); the
\* statement fails as a whole when a row would violate the CHECK
UpdateSubscription(u, id, plan) ==
    IF plan \notin SubscriptionStatuses THEN u
    ELSE [ x \in DOMAIN u |->
            IF x = id THEN [ u[x] EXCEPT !.subscription_status = plan ] ELSE u[x] ]

----------------------------------------------------------------------------
(* services/mpesaService.js *)

\* The callback bodies the endpoint can receive.  Body = FALSE: no
\* Body.stkCallback (destructuring throws); CallbackMetadata = FALSE: a
\* ResultCode 0 payload without CallbackMetadata.Item (items.find throws).
SuccessPayloads(ids) ==
    { [ Body |-> TRUE, CheckoutRequestID |-> c, ResultCode |-> 0,
        ResultDesc |-> "The service request is processed successfully.",
        CallbackMetadata |-> TRUE, MpesaReceiptNumber |-> r, TransactionDate |-> d ] :
      c \in ids, r \in Receipts, d \in Dates }

FailurePayloads(ids) ==
    { [ Body |-> TRUE, CheckoutRequestID |-> c, ResultCode |-> 1032,
        ResultDesc |-> x,
        CallbackMetadata |-> FALSE, MpesaReceiptNumber |-> Undefined,
        TransactionDate |-> Undefined ] :
      c \in ids, x \in Descs }

MalformedPayloads(ids) ==
    { [ Body |-> b, CheckoutRequestID |-> Undefined, ResultCode |-> 0,
        ResultDesc |-> Undefined,
        CallbackMetadata |-> FALSE, MpesaReceiptNumber |-> Undefined,
        TransactionDate |-> Undefined ] :
      b \in BOOLEAN }

Payloads(ids) == SuccessPayloads(ids) \cup FailurePayloads(ids) \cup MalformedPayloads(ids)

NoPayload == [ Body |-> FALSE, CheckoutRequestID |-> Undefined, ResultCode |-> 0,
               ResultDesc |-> Undefined, CallbackMetadata |-> FALSE,
               MpesaReceiptNumber |-> Undefined, TransactionDate |-> Undefined ]

\* handleCallback(callbackData): the parsed result, or threw = TRUE
Threw == [ threw |-> TRUE, success |-> FALSE, checkoutRequestId |-> Undefined,
           mpesaReceiptNumber |-> Undefined, transactionDate |-> Undefined,
           resultDesc |-> Undefined ]

handleCallback(p) ==
    IF ~p.Body THEN Threw
    ELSE IF p.ResultCode = 0
         THEN IF ~p.CallbackMetadata THEN Threw
              ELSE [ threw |-> FALSE, success |-> TRUE,
                     checkoutRequestId  |-> p.CheckoutRequestID,
                     mpesaReceiptNumber |-> p.MpesaReceiptNumber,
                     transactionDate    |-> p.TransactionDate,
                     resultDesc         |-> Undefined ]
         ELSE [ threw |-> FALSE, success |-> FALSE,
                checkoutRequestId  |-> p.CheckoutRequestID,
                mpesaReceiptNumber |-> Undefined,
                transactionDate    |-> Undefined,
                resultDesc         |-> p.ResultDesc ]

\* Phone numbers as sequences of characters.  A subscriber number starts with
\* 7 or 1 (schema.sql, phone_format); the other digits are those of the
\* prefixes the function looks at, and a filler.
AllDigits    == {"0", "1", "2", "3", "4", "5", "6", "7", "8", "9"}
ModelDigits  == {"0", "1", "2", "4", "5", "7"}
CountryCode  == << "2", "5", "4" >>
Subscribers  == { n \in [ 1 .. SubscriberLen -> ModelDigits ] : n[1] \in {"7", "1"} }

\* the ways a caller writes subscriber number n
PhoneForms(n) ==
    { << "0" >> \o n,                              \* 0712345678
      n,                                           \* 712345678
      CountryCode \o n,                            \* 254712345678
      << "+" >> \o CountryCode \o n,               \* +254712345678
      << "+" >> \o CountryCode \o << " " >> \o n,  \* +254 712345678
      << "0", n[1] >> \o << "-" >> \o Tail(n) }    \* 07-12345678

\* String.prototype.startsWith
StartsWith(str, prefix) ==
    Len(str) >= Len(prefix) /\ SubSeq(str, 1, Len(prefix)) = prefix

\* phone.replace(/\D/g, '')
StripNonDigits(str) == SelectSeq(str, LAMBDA c : c \in AllDigits)

\* the function without the removal of the non-digit characters
formatPhoneNumberKeepingSigns(str) ==
    LET local == IF StartsWith(str, << "0" >>) THEN CountryCode \o Tail(str) ELSE str
    IN  IF ~StartsWith(local, CountryCode) THEN CountryCode \o local ELSE local

\* formatPhoneNumber(phone)
formatPhoneNumber(str) ==
    LET cleaned == StripNonDigits(str)
        local   == IF StartsWith(cleaned, << "0" >>)
                   THEN CountryCode \o Tail(cleaned) ELSE cleaned
    IN  IF ~StartsWith(local, CountryCode) THEN CountryCode \o local ELSE local

\* What the provider side of initiateSTKPush can do.  In TEST MODE no call is
\* made; otherwise getAccessToken can fail, and the push can be accepted,
\* rejected with an error body, or fail without a response.
STKOutcomes == IF TEST_MODE THEN {"simulated"}
               ELSE {"accepted", "auth_failed", "rejected", "no_response"}

\* the ids the next push can be given (`TEST_CO_${Date.now()}${random}` or the
\* provider's CheckoutRequestID), none handed out before
FreshIds == (IF TEST_MODE THEN TestIds ELSE LiveIds) \ issued

\* ids are names: the next new one handed out is the first unused one
NextId == CHOOSE id \in FreshIds : \A x \in FreshIds : IdOrder[id] <= IdOrder[x]

\* The id of the next push.  `TEST_CO_${Date.now()}${Math.random()...}` is a
\* new id, or, when clock and random number repeat, one handed out before;
\* the provider's CheckoutRequestID is taken to be new.
PushIds == IF TEST_MODE THEN {NextId} \cup issued ELSE {NextId}

\* the requests initiateSTKPush sends out: none in TEST MODE, otherwise the
\* token request of getAccessToken and, when that succeeds, the push request
Outbound(outcome) ==
    CASE outcome = "simulated"   -> << >>
      [] outcome = "auth_failed" -> << "oauth" >>
      [] OTHER                   -> << "oauth", "stkpush" >>

\* error.response.data.errorMessage of a push the provider rejected
ProviderErrorMessage == "Invalid Access Token"

\* initiateSTKPush(phoneNumber, amount, accountReference, transactionDesc)
\* The catch block turns every error into a returned result, so nothing is
\* raised: raised is "none" for every outcome.
initiateSTKPush(outcome, id) ==
    CASE outcome \in {"simulated", "accepted"} ->
            [ success |-> TRUE, checkoutRequestId |-> id,
              message |-> "STK push sent successfully", raised |-> "none" ]
      [] outcome = "rejected" ->
            [ success |-> FALSE, checkoutRequestId |-> Undefined,
              message |-> ProviderErrorMessage, raised |-> "none" ]
      [] OTHER ->
            [ success |-> FALSE, checkoutRequestId |-> Undefined,
              message |-> "Failed to initiate payment", raised |-> "none" ]

\* const result = ... before the call returns
NoResult == [ success |-> FALSE, checkoutRequestId |-> Undefined,
              message |-> Undefined, raised |-> "none" ]

\* checkoutRequestId.startsWith('TEST_CO_')
StartsWithTestCo(id) == id \in TestIds

----------------------------------------------------------------------------
(* controllers/mpesaController.js: responses and patches *)

\* the keys of planAmounts
PricedPlans == {"basic", "premium"}

\* planAmounts[planId] when planId names a member inherited from
\* Object.prototype: a function, which is truthy and is no number
InheritedMember == -1

\* const planAmounts = { basic: 30, premium: 50 }; planAmounts[planId], with 0
\* for undefined
planAmounts(planId) ==
    CASE planId = "basic" -> 30
      [] planId = "premium" -> 50
      [] planId \in InheritedKeys -> InheritedMember
      [] OTHER -> 0

NoResponse == [ status |-> 0, success |-> FALSE, checkoutRequestId |-> Undefined ]

\* res.status(code).json({success: false, ...})
SubscribeFailure(code) ==
    [ status |-> code, success |-> FALSE, checkoutRequestId |-> Undefined ]

\* res.status(200).json({success: true, data: {checkoutRequestId, ...}})
SubscribeSuccess(id) ==
    [ status |-> 200, success |-> TRUE, checkoutRequestId |-> id ]

\* mpesaCallback: the response at the end of the try block
CallbackResponse == [ status |-> 200, ResultCode |-> 0 ]

\* a catch block that reports the error to the provider
CatchRespondsError == [ status |-> 500, ResultCode |-> 1 ]

\* mpesaCallback: the response of the catch block
CallbackCatchResponse == [ status |-> 200, ResultCode |-> 0 ]

NoCallbackResponse == [ status |-> 0, ResultCode |-> 0 ]

\* mpesaCallback, success branch: the update of the payment row
CompletedPatch(result) ==
    [ status               |-> "completed",
      mpesa_receipt_number |-> result.mpesaReceiptNumber,
      transaction_date     |-> result.transactionDate ]

\* the failure update without the result description
FailedPatchWithoutDesc(result) == [ status |-> "failed" ]

\* mpesaCallback, failure branch: the update of the payment row
FailedPatch(result) ==
    [ status      |-> "failed",
      result_desc |-> result.resultDesc ]

\* the update of the TEST MODE auto-completion
AutoCompletePatch ==
    [ status               |-> "completed",
      mpesa_receipt_number |-> TestReceipt,
      transaction_date     |-> TestDate ]

\* mpesaCallback: const { data: transaction } = select('user_id, account_reference')
NoTransaction == [ found |-> FALSE, user_id |-> Null, account_reference |-> Null ]

SelectTransaction(t, id) ==
    IF HasSingle(t, id)
    THEN [ found |-> TRUE, user_id |-> SingleRow(t, id).user_id,
           account_reference |-> SingleRow(t, id).account_reference ]
    ELSE NoTransaction

\* if (transaction && transaction.user_id && transaction.account_reference)
UpdatesSubscription(transaction) ==
    transaction.found /\ transaction.user_id # Null
                      /\ transaction.account_reference # Null

\* checkPaymentStatus: the response, with the id asked for (req.params) and,
\* as history, whether the store answered the select with an error
StatusNotFound == [ status |-> 404, success |-> FALSE, checkoutRequestId |-> Undefined,
                    payment |-> Null, mpesa_receipt_number |-> Null,
                    transaction_date |-> Null, result_desc |-> Null,
                    asked |-> Undefined, fault |-> FALSE ]

StatusError == [ StatusNotFound EXCEPT !.status = 500 ]

\* a response that reports every payment as pending
StatusFoundStale(id, row) ==
    [ status |-> 200, success |-> TRUE, checkoutRequestId |-> id,
      payment |-> "pending", mpesa_receipt_number |-> row.mpesa_receipt_number,
      transaction_date |-> row.transaction_date, result_desc |-> row.result_desc,
      asked |-> Undefined, fault |-> FALSE ]

StatusFound(id, row) ==
    [ status |-> 200, success |-> TRUE, checkoutRequestId |-> id,
      payment |-> row.status, mpesa_receipt_number |-> row.mpesa_receipt_number,
      transaction_date |-> row.transaction_date, result_desc |-> row.result_desc,
      asked |-> Undefined, fault |-> FALSE ]

NoQuery == [ StatusNotFound EXCEPT !.status = 0 ]

----------------------------------------------------------------------------
(* middleware/auth.js and routes/sync.js: POST /api/sync, GET /api/transactions *)

\* Authorization headers: a token the server signed for a user, a token that
\* jwt.verify refuses, or none
TokenOf == [ u \in UserIds |-> IF u = "u1" THEN "token_u1" ELSE "token_u2" ]
Tokens  == { TokenOf[u] : u \in UserIds } \cup {"forged", Undefined}

\* authenticateToken: 0 stands for next(), with req.user.userId set
authenticateToken(token) ==
    IF token = Undefined THEN [ status |-> 401, userId |-> Undefined ]
    ELSE IF \E u \in UserIds : TokenOf[u] = token
    THEN [ status |-> 0, userId |-> CHOOSE u \in UserIds : TokenOf[u] = token ]
    ELSE [ status |-> 403, userId |-> Undefined ]

\* the transactions a device sends: id and amount are the client's
SyncIds     == {"t1", "t2"}
SyncAmounts == {100, 200}
SyncItems   == [ id : SyncIds, amount : SyncAmounts ]
\* a body whose `transactions` is missing or is no array
NotAnArray  == << [ id |-> Undefined, amount |-> 0 ] >>
\* req.body.transactions: an array of at most MaxBatch items, or no array
SyncBodies  ==
    UNION { [ 1 .. n -> SyncItems ] : n \in 0 .. MaxBatch } \cup { NotAnArray }

\* !transactions || !Array.isArray(transactions)
IsArray(body) == body # NotAnArray

\* table transactions (id TEXT PRIMARY KEY): no row
NoTransactions == [ id \in {} |-> Null ]

\* transactionsToUpsert: every item gets the user id of the token
transactionsToUpsert(body, userId) ==
    [ i \in DOMAIN body |->
        [ id |-> body[i].id, user_id |-> userId, amount |-> body[i].amount ] ]

\* INSERT ... ON CONFLICT (id) DO UPDATE refuses a statement that names one
\* id twice; amount is NOT NULL CHECK (amount > 0)
UpsertRefused(rows) ==
    \/ \E i, j \in DOMAIN rows : i # j /\ rows[i].id = rows[j].id
    \/ \E i \in DOMAIN rows : ~(rows[i].amount > 0)

\* .upsert(rows, {onConflict: 'id', ignoreDuplicates: false}): a row whose id
\* is stored is overwritten in every column sent, user_id included
UpsertOnId(t, rows) ==
    LET ids == { rows[i].id : i \in DOMAIN rows }
    IN  [ id \in DOMAIN t \cup ids |->
            IF id \in ids
            THEN LET i == CHOOSE x \in DOMAIN rows : rows[x].id = id
                 IN  [ user_id |-> rows[i].user_id, amount |-> rows[i].amount ]
            ELSE t[id] ]

\* .select('*').eq('user_id', userId): the rows, each with its id
TransactionsOf(t, userId) ==
    { [ id |-> id, user_id |-> t[id].user_id, amount |-> t[id].amount ] :
        id \in { x \in DOMAIN t : t[x].user_id = userId } }

\* the responses
NoSync == [ status |-> 0, success |-> FALSE, userId |-> Undefined,
            body |-> << >>, syncedCount |-> 0 ]
NoListing == [ status |-> 0, success |-> FALSE, userId |-> Undefined,
               transactions |-> {} ]

\* POST /api/sync
PostSync(token, body, ok) ==
    LET auth   == authenticateToken(token)
        userId == auth.userId
        rows   == transactionsToUpsert(body, userId)
        answer(code, n) == [ status |-> code, success |-> code = 200, userId |-> userId,
                             body |-> body, syncedCount |-> n ]
    IN  /\ listed' = NoListing
        /\ IF auth.status # 0
           THEN ok /\ synced' = answer(auth.status, 0) /\ UNCHANGED transactions
           ELSE IF ~IsArray(body)
           THEN ok /\ synced' = answer(400, 0) /\ UNCHANGED transactions
           ELSE IF Len(body) = 0
           THEN ok /\ synced' = answer(200, 0) /\ UNCHANGED transactions
           ELSE IF supabase = "null"
           THEN ok /\ synced' = answer(503, 0) /\ UNCHANGED transactions
           ELSE IF ~ok \/ UpsertRefused(rows)
           THEN synced' = answer(500, 0) /\ UNCHANGED transactions
           ELSE /\ transactions' = UpsertOnId(transactions, rows)
                /\ synced' = answer(200, Len(body))

\* GET /api/transactions, with the default limit and offset
GetTransactions(token, ok) ==
    LET auth   == authenticateToken(token)
        userId == auth.userId
        answer(code, rows) == [ status |-> code, success |-> code = 200,
                                userId |-> userId, transactions |-> rows ]
    IN  /\ synced' = NoSync
        /\ UNCHANGED transactions
        /\ IF auth.status # 0
           THEN ok /\ listed' = answer(auth.status, {})
           ELSE IF supabase = "null"
           THEN ok /\ listed' = answer(503, {})
           ELSE IF ~ok
           THEN listed' = answer(500, {})
           ELSE listed' = answer(200, TransactionsOf(transactions, userId))

----------------------------------------------------------------------------
(* controllers/authController.js: signup, POST /api/auth/signup *)

\* /^(254|0)[17]\d{8}$/, for subscriber numbers of SubscriberLen digits
MatchesPhoneRegex(str) ==
    \E prefix \in { CountryCode, << "0" >> } :
       /\ Len(str) = Len(prefix) + SubscriberLen
       /\ StartsWith(str, prefix)
       /\ str[Len(prefix) + 1] \in {"1", "7"}
       /\ \A i \in DOMAIN str : str[i] \in AllDigits

\* /^\d{4,6}$/
MatchesPinRegex(pin) ==
    Len(pin) \in 4 .. 6 /\ \A i \in DOMAIN pin : pin[i] \in AllDigits

\* req.body of a signup: a field that is missing is "" ; two subscribers, each
\* written with 0 or with 254, a number without prefix, and no number
SignupSubscribers == { << "7", "1", "1" >>, << "1", "2", "2" >> }
SignupPhones ==
    { << "0" >> \o n : n \in SignupSubscribers }
    \cup { CountryCode \o n : n \in { << "7", "1", "1" >> } }
    \cup { << "7", "1", "1" >>, << >> }
SignupPins  == { << "1", "2", "3", "4" >>, << "1", "2" >>, << >> }
SignupNames == { "Shop", "" }

\* gen_random_uuid(): the ids of the users the table creates, in order
NewUserIds == {"u3", "u4", "u5"}
UserOrder  == [ u \in NewUserIds |-> CASE u = "u3" -> 1 [] u = "u4" -> 2 [] OTHER -> 3 ]
NextUserId(u) ==
    CHOOSE id \in NewUserIds \ DOMAIN u :
       \A x \in NewUserIds \ DOMAIN u : UserOrder[id] <= UserOrder[x]

\* phone_number TEXT UNIQUE NOT NULL
InsertUserViolatesUnique(u, row) == UsersWithPhone(u, row.phone_number) # {}

\* .from('users').insert([row])
InsertUser(u, row) ==
    [ id \in DOMAIN u \cup { NextUserId(u) } |-> IF id \in DOMAIN u THEN u[id] ELSE row ]

\* the responses of signup
SignupResponse(code) == [ status |-> code, success |-> code = 201 ]
NoSignupResponse == [ status |-> 0, success |-> FALSE ]

\* the locals of signup; fault (history): a store call of the request
\* answered with an error other than the refusal of the insert
IdleSignup == [ pc |-> "idle", businessName |-> "", phoneNumber |-> << >>,
                pin |-> << >>, res |-> NoSignupResponse, fault |-> FALSE ]

\* what a signup answered 201 leaves with the client: data.userId, and the
\* phone number and PIN the client chose
Account(me, userId) == [ phoneNumber |-> me.phoneNumber, pin |-> me.pin, userId |-> userId ]

FreeSignupSlot(s) ==
    /\ signups[s].pc = "idle"
    /\ \A x \in SignupProcs : x < s => signups[x].pc # "idle"

\* lines 20-68: validation, the look-up of the phone number
Signup(s, businessName, phoneNumber, pin, ok) ==
    /\ FreeSignupSlot(s)
    /\ nSignup < MaxSignups
    /\ nSignup' = nSignup + 1
    /\ LET me == [ IdleSignup EXCEPT !.businessName = businessName,
                                      !.phoneNumber = phoneNumber, !.pin = pin,
                                      !.fault = ~ok ]
           answer(code) == [ me EXCEPT !.pc = "done", !.res = SignupResponse(code) ]
       IN  IF businessName = "" \/ phoneNumber = << >> \/ pin = << >>
           THEN ok /\ registered' = answer(400) /\ UNCHANGED signups
           ELSE IF ~MatchesPhoneRegex(phoneNumber) \/ ~MatchesPinRegex(pin)
           THEN ok /\ registered' = answer(400) /\ UNCHANGED signups
           ELSE IF supabase = "null"
           THEN ok /\ registered' = answer(503) /\ UNCHANGED signups
           ELSE IF ok /\ HasUser(users, phoneNumber)
           THEN registered' = answer(409) /\ UNCHANGED signups
           ELSE /\ signups' = [ signups EXCEPT ![s] = [ me EXCEPT !.pc = "insert" ] ]
                /\ registered' = IdleSignup
    /\ UNCHANGED << supabase, users, accounts >>

\* lines 70-112: the PIN is hashed, the user inserted, the request answered
SignupInsert(s, ok) ==
    /\ signups[s].pc = "insert"
    /\ LET me  == signups[s]
           row == SignupRow(me.businessName, me.phoneNumber, me.pin)
           insertError == ~ok \/ InsertUserViolatesUnique(users, row)
       IN  /\ users' = IF insertError THEN users ELSE InsertUser(users, row)
           /\ registered' = [ me EXCEPT !.pc = "done", !.fault = @ \/ ~ok,
                                !.res = SignupResponse(IF insertError THEN 500 ELSE 201) ]
           /\ accounts' = IF insertError THEN accounts
                           ELSE accounts \cup { Account(me, NextUserId(users)) }
    /\ signups' = [ signups EXCEPT ![s] = IdleSignup ]
    /\ UNCHANGED << supabase, nSignup >>

----------------------------------------------------------------------------
(* controllers/authController.js: login, verifyToken, getProfile *)

\* jwt.sign({userId, phoneNumber}, JWT_SECRET, {expiresIn}); iat is the time
\* of signing
generateToken(userId, phoneNumber, iat) ==
    [ userId |-> userId, phoneNumber |-> phoneNumber, iat |-> iat, signature |-> "server" ]

\* a token signed with another secret, and a request without Authorization
ForgedToken == [ userId |-> "u3", phoneNumber |-> << "0", "7", "1", "1" >>, iat |-> 1,
                 signature |-> "other" ]
NoToken     == [ userId |-> Undefined, phoneNumber |-> << >>, iat |-> 0,
                 signature |-> "none" ]

\* jwt.verify(token, JWT_SECRET) throws for a signature of another secret
\* and for a token whose expiresIn has passed
jwtVerifies(token, expired) == token.signature = "server" /\ token \notin expired

\* req.body.pin of a login: a JSON string (digits << >>: missing) or a JSON number
LoginPins ==
    [ type : {"string"}, digits : { << "1", "2", "3", "4" >>, << "4", "3", "2", "1" >>, << >> } ]
    \cup { [ type |-> "number", digits |-> << "4", "3", "2", "1" >> ] }
NoPin == [ type |-> "string", digits |-> << >> ]

\* the signups next to the logins: two phone numbers, one PIN
MemberPhones == { << "0" >> \o n : n \in SignupSubscribers }
MemberPins   == { << "1", "2", "3", "4" >> }

\* req.body.phoneNumber of a login: the two, one nobody signs up with, none
LoginPhones == MemberPhones \cup { CountryCode \o << "7", "1", "1" >>, << >> }

\* bcrypt.compare(s, hash) rejects with 'Illegal arguments' unless both are strings
bcryptThrows(pin) == pin.type # "string"

\* the comparison against the stored value taken as the PIN itself
bcryptCompareWithPlain(pin, hash) == hash = pin.digits

\* bcrypt.compare(pin, user.pin)
bcryptCompare(pin, hash) == hash = HashPin(pin.digits)

\* the locals and the response of login; fault (history): the select of the
\* request answered with an error
IdleLogin == [ pc |-> "idle", phoneNumber |-> << >>, pin |-> NoPin, status |-> 0,
               message |-> "", userId |-> Undefined, token |-> NoToken, fault |-> FALSE ]

FreeLoginSlot(l) ==
    /\ logins[l].pc = "idle"
    /\ \A x \in LoginProcs : x < l => logins[x].pc # "idle"

\* lines 126-167: validation, the user of the phone number, the PIN
Login(l, phoneNumber, pin, ok) ==
    /\ FreeLoginSlot(l)
    /\ nLogin < MaxLogins
    /\ nLogin' = nLogin + 1
    /\ LET me == [ IdleLogin EXCEPT !.phoneNumber = phoneNumber, !.pin = pin, !.fault = ~ok ]
           answer(code, msg) == [ me EXCEPT !.pc = "done", !.status = code, !.message = msg ]
       IN  IF phoneNumber = << >> \/ pin.digits = << >>
           THEN /\ ok /\ UNCHANGED logins
                /\ logged' = answer(400, "Phone number and PIN are required")
           ELSE IF supabase = "null"
           THEN /\ ok /\ UNCHANGED logins
                /\ logged' = answer(503, "Database not configured")
           ELSE IF ~ok \/ ~HasUser(users, phoneNumber)
           THEN /\ UNCHANGED logins
                /\ logged' = answer(401, "Invalid phone number or PIN")
           ELSE IF bcryptThrows(pin)
           THEN /\ UNCHANGED logins
                /\ logged' = answer(500, "Illegal arguments: number, string")
           ELSE IF ~bcryptCompare(pin, users[UserId(users, phoneNumber)].pin)
           THEN /\ UNCHANGED logins
                /\ logged' = answer(401, "Invalid phone number or PIN")
           ELSE /\ logins' = [ logins EXCEPT ![l] =
                                 [ me EXCEPT !.pc = "update",
                                             !.userId = UserId(users, phoneNumber) ] ]
                /\ logged' = IdleLogin
    /\ UNCHANGED << supabase, users, verified, nVerify, sessions, lapsed >>

\* lines 169-191: last_login is written (its error is not looked at), the
\* token signed, the request answered
LoginUpdate(l, ok) ==
    /\ logins[l].pc = "update"
    /\ LET me    == logins[l]
           token == generateToken(me.userId, me.phoneNumber, nLogin)
       IN  /\ users' = IF ok /\ me.userId \in DOMAIN users
                        THEN [ users EXCEPT ![me.userId].last_login = nLogin ]
                        ELSE users
           /\ logged' = [ me EXCEPT !.pc = "done", !.status = 200,
                                    !.message = "Login successful", !.token = token ]
           /\ sessions' = sessions \cup { token }
    /\ logins' = [ logins EXCEPT ![l] = IdleLogin ]
    /\ UNCHANGED << supabase, nLogin, verified, nVerify, lapsed >>

\* the data of a user as verifyToken and getProfile return it
Absent == -1
UserData(id, row, lastLogin) ==
    [ userId |-> id, businessName |-> row.business_name, phoneNumber |-> row.phone_number,
      subscriptionStatus |-> row.subscription_status, lastLogin |-> lastLogin ]
NoData == [ userId |-> Undefined, businessName |-> "", phoneNumber |-> << >>,
            subscriptionStatus |-> "", lastLogin |-> Absent ]

NoVerify == [ endpoint |-> "none", token |-> NoToken, status |-> 0, message |-> "",
              data |-> NoData, fault |-> FALSE ]

\* the Authorization headers of the requests: a token a login returned, a
\* forged one, none
TokenInputs == sessions \cup { ForgedToken, NoToken }

\* lines 205-249; without store client supabase.from throws into the catch
VerifyToken(token, ok) ==
    /\ nVerify < MaxVerifies
    /\ nVerify' = nVerify + 1
    /\ LET answer(code, msg, data) ==
               [ endpoint |-> "verify", token |-> token, status |-> code, message |-> msg,
                 data |-> data, fault |-> ~ok ]
       IN  IF token = NoToken
           THEN ok /\ verified' = answer(401, "No token provided", NoData)
           ELSE IF ~jwtVerifies(token, lapsed) \/ supabase = "null"
           THEN ok /\ verified' = answer(401, "Invalid or expired token", NoData)
           ELSE IF ~ok \/ token.userId \notin DOMAIN users
           THEN verified' = answer(401, "Invalid token", NoData)
           ELSE verified' = answer(200, "", UserData(token.userId, users[token.userId], Absent))
    /\ UNCHANGED << supabase, users, logins, logged, nLogin, sessions, lapsed >>

\* lines 255-292
GetProfile(token, ok) ==
    /\ nVerify < MaxVerifies
    /\ nVerify' = nVerify + 1
    /\ LET answer(code, msg, data) ==
               [ endpoint |-> "profile", token |-> token, status |-> code, message |-> msg,
                 data |-> data, fault |-> ~ok ]
       IN  IF token = NoToken
           THEN ok /\ verified' = answer(401, "No token provided", NoData)
           ELSE IF ~jwtVerifies(token, lapsed)
           THEN ok /\ verified' = answer(500, "invalid signature or jwt expired", NoData)
           ELSE IF supabase = "null"
           THEN ok /\ verified' = answer(500, "Cannot read properties of null", NoData)
           ELSE IF ~ok \/ token.userId \notin DOMAIN users
           THEN verified' = answer(404, "User not found", NoData)
           ELSE verified' = answer(200, "", UserData(token.userId, users[token.userId],
                                                    users[token.userId].last_login))
    /\ UNCHANGED << supabase, users, logins, logged, nLogin, sessions, lapsed >>

\* time passes: the expiresIn of a token a login returned is over
TokenExpires(token) ==
    /\ token \in sessions \ lapsed
    /\ lapsed' = lapsed \cup { token }
    /\ UNCHANGED << supabase, users, logins, logged, nLogin, verified, nVerify, sessions >>

\* no login, verify or profile request yet
NoLogins ==
    /\ logins = [ l \in LoginProcs |-> IdleLogin ] /\ logged = IdleLogin /\ nLogin = 0
    /\ verified = NoVerify /\ nVerify = 0
    /\ sessions = {} /\ lapsed = {}

----------------------------------------------------------------------------
(* routes/purchases.js: POST /api/purchases *)

\* req.body.items: item name and totalPrice of each item; << >> stands for a
\* missing or empty items array
ItemNames  == {"sugar"}
ItemPrices == {10, 20}
Items      == [ itemName : ItemNames, totalPrice : ItemPrices ]
ItemLists  == UNION { [ 1 .. n -> Items ] : n \in 0 .. MaxItems }

\* items.reduce((sum, item) => sum + item.totalPrice, 0)
RECURSIVE totalAmount(_)
totalAmount(items) ==
    IF items = << >> THEN 0
    ELSE totalAmount(SubSeq(items, 1, Len(items) - 1)) + items[Len(items)].totalPrice

\* the header row, and the rows of the items
PurchaseRow(userId, items) == [ user_id |-> userId, total_amount |-> totalAmount(items) ]
ItemRows(purchaseId, items) ==
    { [ purchase_id |-> purchaseId, line |-> i, item_name |-> items[i].itemName,
        total_price |-> items[i].totalPrice ] : i \in DOMAIN items }

\* .from('purchases').insert([row]).select().single(): the id is generated
InsertPurchase(t, id, row) ==
    [ x \in DOMAIN t \cup { id } |-> IF x = id THEN row ELSE t[x] ]

\* .from('purchases').delete().eq('id', id)
DeletePurchase(t, id) == [ x \in DOMAIN t \ { id } |-> t[x] ]

ItemsOf(t, purchaseId) == { r \in t : r.purchase_id = purchaseId }

\* the locals and the response of POST /purchases; purchaseId 0: no header
\* inserted
NoPurchaseId == 0
IdlePurchase == [ pc |-> "idle", phoneNumber |-> Undefined, items |-> << >>,
                  userId |-> Undefined, purchaseId |-> NoPurchaseId, status |-> 0,
                  message |-> "" ]

FreePurchaseSlot(b) ==
    /\ buying[b].pc = "idle"
    /\ \A x \in PurchaseProcs : x < b => buying[x].pc # "idle"

\* lines 115-145: validation, the user of the phone number
PostPurchase(b, phoneNumber, items, ok) ==
    /\ FreePurchaseSlot(b)
    /\ nPurchase < MaxPurchases
    /\ nPurchase' = nPurchase + 1
    /\ LET me == [ IdlePurchase EXCEPT !.phoneNumber = phoneNumber, !.items = items ]
           answer(code, msg) == [ me EXCEPT !.pc = "done", !.status = code, !.message = msg ]
       IN  IF phoneNumber = Undefined \/ items = << >>
           THEN /\ ok /\ UNCHANGED buying
                /\ bought' = answer(400, "Phone number and items array required")
           ELSE IF supabase = "null"
           THEN /\ ok /\ UNCHANGED buying
                /\ bought' = answer(503, "Database not configured")
           ELSE IF ~ok \/ ~HasUser(users, phoneNumber)
           THEN /\ UNCHANGED buying
                /\ bought' = answer(404, "User not found")
           ELSE /\ buying' = [ buying EXCEPT ![b] =
                                 [ me EXCEPT !.pc = "header",
                                             !.userId = UserId(users, phoneNumber) ] ]
                /\ bought' = IdlePurchase
    /\ UNCHANGED << supabase, users, purchases, purchaseItems, purchaseSeq >>

\* lines 147-167: the header is inserted
PostPurchaseHeader(b, ok) ==
    /\ buying[b].pc = "header"
    /\ LET me == buying[b]
           id == purchaseSeq + 1
       IN  IF ok
           THEN /\ purchases' = InsertPurchase(purchases, id, PurchaseRow(me.userId, me.items))
                /\ purchaseSeq' = id
                /\ buying' = [ buying EXCEPT ![b] = [ me EXCEPT !.pc = "items",
                                                                !.purchaseId = id ] ]
                /\ bought' = IdlePurchase
           ELSE /\ UNCHANGED << purchases, purchaseSeq >>
                /\ buying' = [ buying EXCEPT ![b] = IdlePurchase ]
                /\ bought' = [ me EXCEPT !.pc = "done", !.status = 500,
                                         !.message = "Failed to add purchase" ]
    /\ UNCHANGED << supabase, users, purchaseItems, nPurchase >>

\* lines 169-184, 193-212: the items are inserted in one statement
PostPurchaseItems(b, ok) ==
    /\ buying[b].pc = "items"
    /\ LET me == buying[b]
       IN  IF ok
           THEN /\ purchaseItems' = purchaseItems \cup ItemRows(me.purchaseId, me.items)
                /\ buying' = [ buying EXCEPT ![b] = IdlePurchase ]
                /\ bought' = [ me EXCEPT !.pc = "done", !.status = 201, !.message = "" ]
           ELSE /\ UNCHANGED purchaseItems
                /\ buying' = [ buying EXCEPT ![b] = [ me EXCEPT !.pc = "rollback" ] ]
                /\ bought' = IdlePurchase
    /\ UNCHANGED << supabase, users, purchases, purchaseSeq, nPurchase >>

\* lines 185-192: the header is deleted again (the result of the delete is
\* not looked at) and the request answered
PostPurchaseRollback(b, ok) ==
    /\ buying[b].pc = "rollback"
    /\ LET me == buying[b]
       IN  /\ purchases' = IF ok THEN DeletePurchase(purchases, me.purchaseId) ELSE purchases
           /\ bought' = [ me EXCEPT !.pc = "done", !.status = 500,
                                    !.message = "Failed to add purchase items" ]
    /\ buying' = [ buying EXCEPT ![b] = IdlePurchase ]
    /\ UNCHANGED << supabase, users, purchaseItems, purchaseSeq, nPurchase >>

\* no purchase stored, no request received
NoPurchases ==
    /\ purchases = [ x \in {} |-> Null ] /\ purchaseItems = {} /\ purchaseSeq = 0
    /\ buying = [ b \in PurchaseProcs |-> IdlePurchase ] /\ bought = IdlePurchase
    /\ nPurchase = 0

----------------------------------------------------------------------------
(* routes/debts.js: GET /api/debts, POST /api/debts, PUT /api/debts/:id/clear *)

\* req.body of POST /debts: a missing customerName is Undefined; amount 0 is
\* falsy, a negative amount fails CHECK (amount > 0)
CustomerNames == {"Asha", Undefined}
DebtAmounts   == {50, 0, -5}

\* req.params.id of a clear: the ids the table can generate and one it cannot
DebtIdInputs == 1 .. MaxDebts + 1

\* cleared_at TIMESTAMP WITH TIME ZONE: NULL until the debt is cleared
NotCleared == 0

\* the row POST /debts inserts
DebtRow(userId, customerName, amount) ==
    [ user_id |-> userId, customer_name |-> customerName, amount |-> amount,
      status |-> "pending", cleared_at |-> NotCleared ]

\* amount INTEGER NOT NULL CHECK (amount > 0)
DebtViolatesCheck(row) == ~(row.amount > 0)

\* .from('debts').insert([row]).select().single(): the id is generated
InsertDebt(t, id, row) == [ x \in DOMAIN t \cup { id } |-> IF x = id THEN row ELSE t[x] ]

\* the rows .eq('id', id).eq('user_id', userId) selects
DebtsMatching(t, id, userId) == { x \in DOMAIN t : x = id /\ t[x].user_id = userId }

\* .update({status: 'cleared', cleared_at: now}).eq('id', id).eq('user_id', userId)
ClearDebts(t, id, userId, now) ==
    [ x \in DOMAIN t |->
        IF x \in DebtsMatching(t, id, userId)
        THEN [ t[x] EXCEPT !.status = "cleared", !.cleared_at = now ]
        ELSE t[x] ]

\* the select of GET /debts without its .eq('status', 'pending')
DebtsOf(t, userId) == { x \in DOMAIN t : t[x].user_id = userId }

\* .select('*').eq('user_id', userId).eq('status', 'pending')
PendingDebtsOf(t, userId) ==
    { x \in DOMAIN t : t[x].user_id = userId /\ t[x].status = "pending" }

\* the locals and the response of a request of routes/debts.js; debts: the
\* ids of the debts listed
IdleDebt == [ pc |-> "idle", route |-> "none", phoneNumber |-> Undefined,
              customerName |-> Undefined, amount |-> 0, id |-> 0, userId |-> Undefined,
              status |-> 0, message |-> "", debts |-> {}, fault |-> FALSE ]

FreeDebtSlot(r) ==
    /\ debtReqs[r].pc = "idle"
    /\ \A x \in DebtProcs : x < r => debtReqs[x].pc # "idle"

\* the common start of the three routes: phone number, store client, the
\* user of the phone number; invalid says whether the validation refuses
DebtRequest(r, me, invalid, msg, ok) ==
    /\ FreeDebtSlot(r)
    /\ nDebt < MaxDebtRequests
    /\ nDebt' = nDebt + 1
    /\ LET answer(code, m) == [ me EXCEPT !.pc = "done", !.status = code, !.message = m ]
       IN  IF invalid
           THEN ok /\ UNCHANGED debtReqs /\ debtAnswer' = answer(400, msg)
           ELSE IF supabase = "null"
           THEN ok /\ UNCHANGED debtReqs /\ debtAnswer' = answer(503, "Database not configured")
           ELSE IF ~ok \/ ~HasUser(users, me.phoneNumber)
           THEN /\ UNCHANGED debtReqs
                /\ debtAnswer' = [ answer(404, "User not found") EXCEPT !.fault = ~ok ]
           ELSE /\ debtReqs' = [ debtReqs EXCEPT ![r] =
                                   [ me EXCEPT !.pc = "store",
                                               !.userId = UserId(users, me.phoneNumber) ] ]
                /\ debtAnswer' = IdleDebt
    /\ UNCHANGED << supabase, users, debts, debtSeq >>

\* GET /debts, lines 9-40
GetDebts(r, phoneNumber, ok) ==
    DebtRequest(r, [ IdleDebt EXCEPT !.route = "list", !.phoneNumber = phoneNumber ],
                phoneNumber = Undefined, "Phone number required", ok)

\* GET /debts, lines 42-70
GetDebtsSelect(r, ok) ==
    /\ debtReqs[r].pc = "store" /\ debtReqs[r].route = "list"
    /\ LET me == debtReqs[r]
       IN  debtAnswer' = IF ok
                         THEN [ me EXCEPT !.pc = "done", !.status = 200,
                                          !.debts = PendingDebtsOf(debts, me.userId) ]
                         ELSE [ me EXCEPT !.pc = "done", !.status = 500, !.fault = TRUE,
                                          !.message = "Failed to fetch debts" ]
    /\ debtReqs' = [ debtReqs EXCEPT ![r] = IdleDebt ]
    /\ UNCHANGED << supabase, users, debts, debtSeq, nDebt >>

\* POST /debts, lines 84-115
PostDebt(r, phoneNumber, customerName, amount, ok) ==
    DebtRequest(r, [ IdleDebt EXCEPT !.route = "add", !.phoneNumber = phoneNumber,
                                     !.customerName = customerName, !.amount = amount ],
                phoneNumber = Undefined \/ customerName = Undefined \/ amount = 0,
                "Phone number, customer name, and amount required", ok)

\* POST /debts, lines 117-150
PostDebtInsert(r, ok) ==
    /\ debtReqs[r].pc = "store" /\ debtReqs[r].route = "add"
    /\ debtSeq < MaxDebts
    /\ LET me    == debtReqs[r]
           row   == DebtRow(me.userId, me.customerName, me.amount)
           id    == debtSeq + 1
           error == ~ok \/ DebtViolatesCheck(row)
       IN  IF error
           THEN /\ UNCHANGED << debts, debtSeq >>
                /\ debtAnswer' = [ me EXCEPT !.pc = "done", !.status = 500, !.fault = ~ok,
                                             !.message = "Failed to add debt" ]
           ELSE /\ debts' = InsertDebt(debts, id, row)
                /\ debtSeq' = id
                /\ debtAnswer' = [ me EXCEPT !.pc = "done", !.status = 201, !.id = id ]
    /\ debtReqs' = [ debtReqs EXCEPT ![r] = IdleDebt ]
    /\ UNCHANGED << supabase, users, nDebt >>

\* PUT /debts/:id/clear, lines 163-195
ClearDebt(r, id, phoneNumber, ok) ==
    DebtRequest(r, [ IdleDebt EXCEPT !.route = "clear", !.phoneNumber = phoneNumber,
                                     !.id = id ],
                phoneNumber = Undefined, "Phone number required", ok)

\* PUT /debts/:id/clear, lines 197-228: .single() answers with an error
\* unless exactly one row was updated
ClearDebtUpdate(r, ok) ==
    /\ debtReqs[r].pc = "store" /\ debtReqs[r].route = "clear"
    /\ LET me      == debtReqs[r]
           matched == DebtsMatching(debts, me.id, me.userId)
           error   == ~ok \/ Cardinality(matched) # 1
       IN  /\ debts' = IF ok THEN ClearDebts(debts, me.id, me.userId, nDebt) ELSE debts
           /\ debtAnswer' = IF error
                             THEN [ me EXCEPT !.pc = "done", !.status = 500, !.fault = ~ok,
                                              !.message = "Failed to clear debt" ]
                             ELSE [ me EXCEPT !.pc = "done", !.status = 200,
                                              !.message = "Debt cleared successfully" ]
    /\ debtReqs' = [ debtReqs EXCEPT ![r] = IdleDebt ]
    /\ UNCHANGED << supabase, users, debtSeq, nDebt >>

\* no debt stored, no request received
NoDebts ==
    /\ debts = [ x \in {} |-> Null ] /\ debtSeq = 0
    /\ debtReqs = [ r \in DebtProcs |-> IdleDebt ] /\ debtAnswer = IdleDebt /\ nDebt = 0

----------------------------------------------------------------------------
(* services/otpService.js: createOTP, verifyOTP *)

\* generateOTP(): Math.random() decides; the codes of the model
OtpCodes == {"111111", "222222"}

\* the phone numbers of the calls: a registered one and an unregistered one
OtpPhones == {"0711111111", "0799999999"}

\* if (otpRecord.attempts >= 5)
MaxAttempts == 5

\* the row createOTP inserts: verified DEFAULT false, attempts DEFAULT 0;
\* expired: expires_at has passed
OtpRow(phoneNumber, otpCode) ==
    [ phone_number |-> phoneNumber, otp_code |-> otpCode, verified |-> FALSE,
      attempts |-> 0, expired |-> FALSE ]

\* .from('otp_codes').insert([row]): ids in the order of created_at
InsertOtp(t, row) ==
    [ x \in DOMAIN t \cup { Cardinality(DOMAIN t) + 1 } |-> IF x \in DOMAIN t THEN t[x] ELSE row ]

\* the rows .eq('phone_number', phoneNumber).eq('verified', false) selects
Unverified(t, phoneNumber) ==
    { x \in DOMAIN t : t[x].phone_number = phoneNumber /\ ~t[x].verified }

\* .update({verified: true}).eq('phone_number', phoneNumber).eq('verified', false)
InvalidateOtps(t, phoneNumber) ==
    [ x \in DOMAIN t |-> IF x \in Unverified(t, phoneNumber)
                          THEN [ t[x] EXCEPT !.verified = TRUE ] ELSE t[x] ]

\* .order('created_at', {ascending: false}).limit(1).single()
LatestUnverified(t, phoneNumber) ==
    CHOOSE x \in Unverified(t, phoneNumber) : \A y \in Unverified(t, phoneNumber) : y <= x

\* .update(patch).eq('id', id)
UpdateOtp(t, id, field, value) ==
    [ x \in DOMAIN t |-> IF x = id THEN [ t[x] EXCEPT ![field] = value ] ELSE t[x] ]

\* the locals of a call; id, attempts: otpRecord as selected
IdleOtp == [ pc |-> "idle", fn |-> "none", phoneNumber |-> Undefined, otpCode |-> "",
             id |-> 0, attempts |-> 0 ]

\* what a call threw or returned; otpId of createOTP, attemptsLeft of
\* verifyOTP (NoAttemptsLeft: the result has none)
NoAttemptsLeft == -1
NoOtpResult == [ fn |-> "none", threw |-> FALSE, success |-> FALSE, message |-> "",
                 otpId |-> 0, attemptsLeft |-> NoAttemptsLeft ]
OtpThrows(me, msg) == [ NoOtpResult EXCEPT !.fn = me.fn, !.threw = TRUE, !.message = msg ]
OtpReturns(me, success, msg) ==
    [ NoOtpResult EXCEPT !.fn = me.fn, !.success = success, !.message = msg ]

\* a store call of the OTP service answers (ok) or fails
OtpStore(ok) ==
    /\ ok \/ otpFaults < MaxOtpFaults
    /\ otpFaults' = IF ok THEN otpFaults ELSE otpFaults + 1

FreeOtpSlot(p) ==
    /\ otpCalls[p].pc = "idle"
    /\ \A x \in OtpProcs : x < p => otpCalls[x].pc # "idle"

\* createOTP, lines 144-159: the store client, the user of the phone number
CreateOTP(p, phoneNumber, ok) ==
    /\ OtpStore(ok)
    /\ FreeOtpSlot(p)
    /\ nCreateOtp < MaxCreateOtp
    /\ nCreateOtp' = nCreateOtp + 1
    /\ LET me == [ IdleOtp EXCEPT !.fn = "createOTP", !.phoneNumber = phoneNumber ]
       IN  IF supabase = "null"
           THEN ok /\ UNCHANGED otpCalls /\ otpResult' = OtpThrows(me, "Supabase not configured")
           ELSE IF ~ok \/ ~HasUser(users, phoneNumber)
           THEN UNCHANGED otpCalls /\ otpResult' = OtpThrows(me, "User not found")
           ELSE /\ otpCalls' = [ otpCalls EXCEPT ![p] = [ me EXCEPT !.pc = "invalidate" ] ]
                /\ otpResult' = NoOtpResult
    /\ UNCHANGED << supabase, users, otp_codes, nVerifyOtp, failures, used >>

\* createOTP, lines 161-171: the code is drawn, the unverified OTPs of the
\* phone number are marked verified (the result of the update is not read)
CreateOTPInvalidate(p, otpCode, ok) ==
    /\ OtpStore(ok)
    /\ otpCalls[p].pc = "invalidate"
    /\ otp_codes' = IF ok THEN InvalidateOtps(otp_codes, otpCalls[p].phoneNumber)
                           ELSE otp_codes
    /\ otpCalls' = [ otpCalls EXCEPT ![p] = [ @ EXCEPT !.pc = "insert", !.otpCode = otpCode ] ]
    /\ otpResult' = NoOtpResult
    /\ UNCHANGED << supabase, users, nCreateOtp, nVerifyOtp, failures, used >>

\* createOTP, lines 173-204: the OTP is inserted, the SMS logged
CreateOTPInsert(p, ok) ==
    /\ OtpStore(ok)
    /\ otpCalls[p].pc = "insert"
    /\ LET me == otpCalls[p]
       IN  IF ok
           THEN /\ otp_codes' = InsertOtp(otp_codes, OtpRow(me.phoneNumber, me.otpCode))
                /\ failures' = [ x \in DOMAIN otp_codes' |->
                                    IF x \in DOMAIN failures THEN failures[x] ELSE 0 ]
                /\ otpResult' = [ OtpReturns(me, TRUE, "") EXCEPT
                                     !.otpId = Cardinality(DOMAIN otp_codes) + 1 ]
           ELSE /\ UNCHANGED << otp_codes, failures >>
                /\ otpResult' = OtpThrows(me, "insert failed")
    /\ otpCalls' = [ otpCalls EXCEPT ![p] = IdleOtp ]
    /\ UNCHANGED << supabase, users, nCreateOtp, nVerifyOtp, used >>

\* verifyOTP, lines 214-254 and the comparison of line 257
VerifyOTP(p, phoneNumber, otpCode, ok) ==
    /\ OtpStore(ok)
    /\ FreeOtpSlot(p)
    /\ nVerifyOtp < MaxVerifyOtp
    /\ nVerifyOtp' = nVerifyOtp + 1
    /\ LET me == [ IdleOtp EXCEPT !.fn = "verifyOTP", !.phoneNumber = phoneNumber,
                                   !.otpCode = otpCode ]
       IN  IF supabase = "null"
           THEN ok /\ UNCHANGED otpCalls /\ otpResult' = OtpThrows(me, "Supabase not configured")
           ELSE IF ~ok \/ Unverified(otp_codes, phoneNumber) = {}
           THEN /\ UNCHANGED otpCalls
                /\ otpResult' = OtpReturns(me, FALSE, "No valid OTP found. Please request a new one.")
           ELSE LET id        == LatestUnverified(otp_codes, phoneNumber)
                    otpRecord == otp_codes[id]
                IN  IF otpRecord.expired
                    THEN /\ UNCHANGED otpCalls
                         /\ otpResult' = OtpReturns(me, FALSE,
                                             "OTP has expired. Please request a new one.")
                    ELSE IF otpRecord.attempts >= MaxAttempts
                    THEN /\ UNCHANGED otpCalls
                         /\ otpResult' = OtpReturns(me, FALSE,
                                 "Too many failed attempts. Please request a new OTP.")
                    ELSE /\ otpCalls' = [ otpCalls EXCEPT ![p] =
                                            [ me EXCEPT !.id = id,
                                                        !.attempts = otpRecord.attempts,
                                                        !.pc = IF otpRecord.otp_code # otpCode
                                                               THEN "attempt" ELSE "mark" ] ]
                         /\ otpResult' = NoOtpResult
    /\ UNCHANGED << supabase, users, otp_codes, nCreateOtp, failures, used >>

\* verifyOTP, lines 258-268: attempts becomes the value read plus one (the
\* result of the update is not read)
VerifyOTPAttempt(p, ok) ==
    /\ OtpStore(ok)
    /\ otpCalls[p].pc = "attempt"
    /\ LET me == otpCalls[p]
       IN  /\ otp_codes' = IF ok THEN UpdateOtp(otp_codes, me.id, "attempts", me.attempts + 1)
                                  ELSE otp_codes
           /\ otpResult' = [ OtpReturns(me, FALSE, "Invalid OTP code.") EXCEPT
                                !.attemptsLeft = MaxAttempts - (me.attempts + 1) ]
           /\ failures' = [ failures EXCEPT ![me.id] = @ + 1 ]
    /\ otpCalls' = [ otpCalls EXCEPT ![p] = IdleOtp ]
    /\ UNCHANGED << supabase, users, nCreateOtp, nVerifyOtp, used >>

\* verifyOTP, lines 271-282: the OTP is marked verified (the result of the
\* update is not read)
VerifyOTPMark(p, ok) ==
    /\ OtpStore(ok)
    /\ otpCalls[p].pc = "mark"
    /\ LET me == otpCalls[p]
       IN  /\ otp_codes' = IF ok THEN UpdateOtp(otp_codes, me.id, "verified", TRUE)
                                  ELSE otp_codes
           /\ otpResult' = OtpReturns(me, TRUE, "OTP verified successfully")
           /\ used' = used \cup { me.id }
    /\ otpCalls' = [ otpCalls EXCEPT ![p] = IdleOtp ]
    /\ UNCHANGED << supabase, users, nCreateOtp, nVerifyOtp, failures >>

\* time passes: expires_at of the oldest OTP that has not expired is over
OtpExpires(id) ==
    /\ id \in DOMAIN otp_codes /\ ~otp_codes[id].expired
    /\ \A x \in DOMAIN otp_codes : x < id => otp_codes[x].expired
    /\ otp_codes' = UpdateOtp(otp_codes, id, "expired", TRUE)
    /\ UNCHANGED << supabase, users, otpCalls, otpResult, nCreateOtp, nVerifyOtp, failures,
                   used, otpFaults >>

\* no OTP stored, no call made
NoOtps ==
    /\ otp_codes = [ x \in {} |-> Null ]
    /\ otpCalls = [ p \in OtpProcs |-> IdleOtp ] /\ otpResult = NoOtpResult
    /\ nCreateOtp = 0 /\ nVerifyOtp = 0
    /\ failures = [ x \in {} |-> 0 ] /\ used = {} /\ otpFaults = 0

----------------------------------------------------------------------------
(* Handler-local state *)

IdleSub == [ pc |-> "idle", phoneNumber |-> Undefined, planId |-> Undefined,
             user |-> Null, amount |-> 0, checkoutRequestId |-> Undefined,
             outcome |-> "none", outbound |-> << >>, result |-> NoResult,
             res |-> NoResponse ]

\* History fields of a callback handler (they record, they decide nothing):
\*   pend   the payment row of its checkout id was pending when it started
\*   dup    the step before its first one answered a callback with the same
\*          payload, which ran alone and without a store error
\*   alone  nothing else has touched its checkout id since it started
\*   conc   another callback for the same checkout id was in flight with it
\*   fault  a store call of it, or of a callback for the same checkout id that
\*          answered while it was in flight, answered with an error
IdleCb == [ pc |-> "idle", payload |-> NoPayload, result |-> Threw,
            transaction |-> NoTransaction, res |-> NoCallbackResponse,
            pend |-> FALSE, dup |-> FALSE, alone |-> FALSE, conc |-> FALSE,
            fault |-> FALSE ]

Init ==
    /\ supabase \in {"client", "null"}
    /\ TEST_MODE \in BOOLEAN
    /\ users = [ u \in UserIds |-> NewUser(PhoneOf[u]) ]
    /\ txns = << >>
    /\ issued = {}
    /\ sub = [ s \in SubProcs |-> IdleSub ]
    /\ cb = [ h \in CbProcs |-> IdleCb ]
    /\ timers = {}
    /\ replied = IdleSub
    /\ answered = IdleCb
    /\ query = NoQuery
    /\ effects = [ c \in CheckoutIds |-> 0 ]
    /\ nSub = 0
    /\ nCb = 0
    /\ subscriber = << >> /\ rawPhone = << >> /\ formattedPhone = << >>
    /\ transactions = NoTransactions /\ synced = NoSync /\ listed = NoListing
    /\ signups = [ s \in SignupProcs |-> IdleSignup ] /\ registered = IdleSignup
    /\ nSignup = 0 /\ accounts = {}
    /\ NoLogins
    /\ NoPurchases
    /\ NoDebts
    /\ NoOtps

----------------------------------------------------------------------------
(* Histories *)

InFlight(h, id) ==
    cb[h].pc \in {"update", "subscription"} /\ cb[h].result.checkoutRequestId = id

\* handler slots are names: a request takes the first slot that is free
FreeSlot(h) ==
    /\ cb[h].pc = "idle"
    /\ \A x \in CbProcs : x < h => cb[x].pc # "idle"

FreeSubSlot(s) ==
    /\ sub[s].pc = "idle"
    /\ \A x \in SubProcs : x < s => sub[x].pc # "idle"

\* cb after something other than handler `self` touched checkout id `id`;
\* `success`: that something is a callback with result code 0
Touch(id, self, success) ==
    [ h \in CbProcs |->
        IF h # self /\ InFlight(h, id)
        THEN [ cb[h] EXCEPT !.alone = FALSE, !.conc = @ \/ success ]
        ELSE cb[h] ]

\* cb after handler `self`, in state `done`, has answered
Leave(self, done) ==
    [ h \in CbProcs |->
        IF h = self THEN IdleCb
        ELSE IF InFlight(h, done.result.checkoutRequestId)
        THEN [ cb[h] EXCEPT !.fault = @ \/ done.fault ]
        ELSE cb[h] ]

Applied(id) == [ effects EXCEPT ![id] = @ + 1 ]

----------------------------------------------------------------------------
(* initiateSubscription: POST /api/mpesa/subscribe *)

\* lines 8-46: validation, the lookup of the user, the price of the plan
InitiateSubscription(s, phoneNumber, planId, ok) ==
    /\ FreeSubSlot(s)
    /\ nSub < MaxSubscribe /\ nSub + nCb < MaxRequests
    /\ nSub' = nSub + 1
    /\ LET me == [ IdleSub EXCEPT !.phoneNumber = phoneNumber, !.planId = planId ]
           answer(code) == [ me EXCEPT !.pc = "done", !.res = SubscribeFailure(code) ]
       IN  IF phoneNumber = Undefined \/ planId = Undefined
           THEN ok /\ replied' = answer(400) /\ UNCHANGED sub
           ELSE IF supabase = "null"
           THEN ok /\ replied' = answer(500) /\ UNCHANGED sub
           ELSE IF ~ok \/ ~HasUser(users, phoneNumber)
           THEN replied' = answer(404) /\ UNCHANGED sub
           ELSE IF planAmounts(planId) = 0
           THEN replied' = answer(400) /\ UNCHANGED sub
           ELSE /\ sub' = [ sub EXCEPT ![s] =
                              [ me EXCEPT !.pc = "push",
                                          !.user = UserId(users, phoneNumber),
                                          !.amount = planAmounts(planId) ] ]
                /\ replied' = IdleSub
    /\ answered' = IdleCb /\ query' = NoQuery
    /\ UNCHANGED << supabase, TEST_MODE, users, txns, issued, cb, timers,
                    effects, nCb >>

\* lines 48-56, 118-120: the push request
InitiateSTKPush(s, outcome, id) ==
    /\ sub[s].pc = "push"
    /\ outcome \in STKOutcomes
    /\ LET result == initiateSTKPush(outcome, id)
           me     == [ sub[s] EXCEPT !.outcome = outcome, !.outbound = Outbound(outcome),
                                     !.result = result ]
       IN  IF result.success
           THEN /\ FreshIds # {}
                /\ id \in PushIds
                /\ issued' = issued \cup {id}
                /\ sub' = [ sub EXCEPT ![s] =
                              [ me EXCEPT !.pc = "insert",
                                          !.checkoutRequestId = result.checkoutRequestId ] ]
                /\ replied' = IdleSub
           ELSE /\ id = Undefined
                /\ UNCHANGED issued
                /\ sub' = [ sub EXCEPT ![s] = IdleSub ]
                /\ replied' = [ me EXCEPT !.pc = "done", !.res = SubscribeFailure(400) ]
    /\ answered' = IdleCb /\ query' = NoQuery
    /\ UNCHANGED << supabase, TEST_MODE, users, txns, cb, timers,
                    effects, nSub, nCb >>

\* lines 56-117: the insert of the payment row, the scheduling of the TEST MODE
\* auto-completion, the response
StoreTransaction(s, ok) ==
    /\ sub[s].pc = "insert"
    /\ LET id  == sub[s].checkoutRequestId
           row == NewTransaction(sub[s].user, id, sub[s].planId, sub[s].amount)
           error == ~ok \/ InsertViolatesUnique(txns, row) \/ InsertViolatesCheck(row)
       IN  /\ txns' = IF error THEN txns ELSE InsertTransaction(txns, row)
           /\ timers' = IF StartsWithTestCo(id)
                        THEN timers \cup { [ checkoutRequestId |-> id,
                                             user_id |-> sub[s].user,
                                             planId |-> sub[s].planId,
                                             pc |-> "transaction" ] }
                        ELSE timers
           /\ sub' = [ sub EXCEPT ![s] = IdleSub ]
           /\ replied' = [ sub[s] EXCEPT !.pc = "done", !.res = SubscribeSuccess(id) ]
           /\ cb' = Touch(id, 0, FALSE)
    /\ answered' = IdleCb /\ query' = NoQuery
    /\ UNCHANGED << supabase, TEST_MODE, users, issued, effects, nSub, nCb >>

\* lines 83-93: the timer fires and completes the payment row; the answer of
\* the store is not looked at
AutoCompleteTransaction(t, ok) ==
    /\ t \in timers /\ t.pc = "transaction"
    /\ txns' = IF ok THEN UpdateTransactions(txns, t.checkoutRequestId, AutoCompletePatch)
                     ELSE txns
    /\ timers' = (timers \ {t}) \cup { [ t EXCEPT !.pc = "user" ] }
    /\ cb' = Touch(t.checkoutRequestId, 0, FALSE)
    /\ replied' = IdleSub /\ answered' = IdleCb /\ query' = NoQuery
    /\ UNCHANGED << supabase, TEST_MODE, users, issued, sub, effects, nSub, nCb >>

\* lines 95-103: the timer sets the subscription of the user
AutoCompleteSubscription(t, ok) ==
    /\ t \in timers /\ t.pc = "user"
    /\ users' = IF ok THEN UpdateSubscription(users, t.user_id, t.planId) ELSE users
    /\ effects' = IF ok /\ t.planId \in SubscriptionStatuses
                  THEN Applied(t.checkoutRequestId) ELSE effects
    /\ timers' = timers \ {t}
    /\ cb' = Touch(t.checkoutRequestId, 0, FALSE)
    /\ replied' = IdleSub /\ answered' = IdleCb /\ query' = NoQuery
    /\ UNCHANGED << supabase, TEST_MODE, txns, issued, sub, nSub, nCb >>

----------------------------------------------------------------------------
(* mpesaCallback: POST /api/mpesa/callback *)

CallbackIds == IF TEST_MODE THEN TestIds ELSE LiveIds

\* lines 134-146 (result code 0) or 134-138, 180-196 (any other result code):
\* the body is parsed; on success the payment row is read, on failure it is
\* written as failed and the provider is answered
MpesaCallback(h, p, ok) ==
    /\ FreeSlot(h)
    /\ nCb < MaxCallbacks /\ nSub + nCb < MaxRequests
    /\ p \in Payloads(CallbackIds)
    /\ nCb' = nCb + 1
    /\ LET result == handleCallback(p)
           id     == result.checkoutRequestId
           others == \E x \in CbProcs \ {h} : InFlight(x, id)
           me     == [ IdleCb EXCEPT !.payload = p, !.result = result ]
           began  == [ me EXCEPT
                         !.pend  = HasSingle(txns, id) /\ SingleRow(txns, id).status = "pending",
                         !.dup   = /\ answered.pc = "done" /\ answered.payload = p
                                   /\ answered.alone /\ ~answered.fault /\ ~others,
                         !.alone = ~others,
                         !.conc  = others /\ result.success,
                         !.fault = ~ok ]
       IN  IF result.threw \/ supabase = "null"
           THEN /\ ok
                /\ answered' = [ me EXCEPT !.pc = "done", !.res = CallbackCatchResponse ]
                /\ UNCHANGED << cb, txns >>
           ELSE IF result.success
           THEN /\ cb' = [ Touch(id, h, TRUE) EXCEPT ![h] =
                             [ began EXCEPT !.pc = "update",
                                 !.transaction = IF ok THEN SelectTransaction(txns, id)
                                                       ELSE NoTransaction ] ]
                /\ answered' = IdleCb
                /\ UNCHANGED txns
           ELSE LET done == [ began EXCEPT !.pc = "done", !.res = CallbackResponse ]
                IN  /\ txns' = IF ok THEN UpdateTransactions(txns, id, FailedPatch(result))
                                     ELSE txns
                    /\ cb' = [ x \in CbProcs |->
                                IF x # h /\ InFlight(x, id)
                                THEN [ Touch(id, h, FALSE)[x] EXCEPT !.fault = @ \/ ~ok ]
                                ELSE cb[x] ]
                    /\ answered' = done
    /\ replied' = IdleSub /\ query' = NoQuery
    /\ UNCHANGED << supabase, TEST_MODE, users, issued, sub, timers, effects, nSub >>

\* lines 148-164 (and 179-196 when there is no subscription to update): the
\* payment row is written as completed; a store error is logged only
MpesaCallbackUpdate(h, ok) ==
    /\ cb[h].pc = "update"
    /\ txns' = IF ok THEN UpdateTransactions(txns, cb[h].result.checkoutRequestId,
                                             CompletedPatch(cb[h].result))
                     ELSE txns
    /\ LET me == [ cb[h] EXCEPT !.fault = @ \/ ~ok ]
       IN  IF UpdatesSubscription(cb[h].transaction)
           THEN /\ cb' = [ cb EXCEPT ![h] = [ me EXCEPT !.pc = "subscription" ] ]
                /\ answered' = IdleCb
           ELSE LET done == [ me EXCEPT !.pc = "done", !.res = CallbackResponse ]
                IN  /\ cb' = Leave(h, done)
                    /\ answered' = done
    /\ replied' = IdleSub /\ query' = NoQuery
    /\ UNCHANGED << supabase, TEST_MODE, users, issued, sub, timers, effects, nSub, nCb >>

\* lines 164-196: the subscription of the user is written, the provider answered
MpesaCallbackSubscription(h, ok) ==
    /\ cb[h].pc = "subscription"
    /\ users' = IF ok THEN UpdateSubscription(users, cb[h].transaction.user_id,
                                              cb[h].transaction.account_reference)
                      ELSE users
    /\ effects' = IF ok /\ cb[h].transaction.account_reference \in SubscriptionStatuses
                  THEN Applied(cb[h].result.checkoutRequestId) ELSE effects
    /\ LET done == [ cb[h] EXCEPT !.pc = "done", !.res = CallbackResponse,
                                  !.fault = @ \/ ~ok ]
       IN  /\ cb' = Leave(h, done)
           /\ answered' = done
    /\ replied' = IdleSub /\ query' = NoQuery
    /\ UNCHANGED << supabase, TEST_MODE, txns, issued, sub, timers, nSub, nCb >>

----------------------------------------------------------------------------
(* checkPaymentStatus: GET /api/mpesa/status/:checkoutRequestId *)

CheckPaymentStatus(id, ok) ==
    /\ id \in CallbackIds
    /\ LET answer(res) == [ res EXCEPT !.asked = id, !.fault = ~ok ]
       IN  IF supabase = "null"
           THEN ok /\ query' = answer(StatusError)
           ELSE query' = answer(IF ~ok \/ ~HasSingle(txns, id) THEN StatusNotFound
                                ELSE StatusFound(id, SingleRow(txns, id)))
    /\ replied' = IdleSub /\ answered' = IdleCb
    /\ UNCHANGED << supabase, TEST_MODE, users, txns, issued, sub, cb, timers,
                    effects, nSub, nCb >>

----------------------------------------------------------------------------

Next ==
    \/ \E s \in SubProcs, phoneNumber \in PhoneInputs, planId \in PlanInputs, ok \in BOOLEAN :
          InitiateSubscription(s, phoneNumber, planId, ok) /\ UNCHANGED notMpesa
    \/ \E s \in SubProcs, outcome \in STKOutcomes, id \in CheckoutIds \cup {Undefined} :
          InitiateSTKPush(s, outcome, id) /\ UNCHANGED notMpesa
    \/ \E s \in SubProcs, ok \in BOOLEAN : StoreTransaction(s, ok) /\ UNCHANGED notMpesa
    \/ \E t \in timers, ok \in BOOLEAN : AutoCompleteTransaction(t, ok) /\ UNCHANGED notMpesa
    \/ \E t \in timers, ok \in BOOLEAN : AutoCompleteSubscription(t, ok) /\ UNCHANGED notMpesa
    \/ \E h \in CbProcs, p \in Payloads(CallbackIds), ok \in BOOLEAN :
          MpesaCallback(h, p, ok) /\ UNCHANGED notMpesa
    \/ \E h \in CbProcs, ok \in BOOLEAN : MpesaCallbackUpdate(h, ok) /\ UNCHANGED notMpesa
    \/ \E h \in CbProcs, ok \in BOOLEAN : MpesaCallbackSubscription(h, ok) /\ UNCHANGED notMpesa

\* the operations that write, and the status reads between them
NextStatus ==
    \/ Next
    \/ \E id \in CheckoutIds, ok \in BOOLEAN :
          CheckPaymentStatus(id, ok) /\ UNCHANGED notMpesa

Spec == Init /\ [][Next]_vars

SpecStatus == Init /\ [][NextStatus]_vars

----------------------------------------------------------------------------
(* formatPhoneNumber on its own *)

\* a caller writes a subscriber number in one of its forms; no payment
\* request is around
InitPhone ==
    /\ Init
    /\ supabase = "client" /\ TEST_MODE

\* the caller picks a number and a way to write it
WritePhone(n, str) ==
    /\ rawPhone = << >>
    /\ str \in PhoneForms(n)
    /\ subscriber' = n /\ rawPhone' = str /\ formattedPhone' = << >>

\* const formattedPhone = formatPhoneNumber(phoneNumber)
FormatPhoneNumber ==
    /\ rawPhone # << >> /\ formattedPhone = << >>
    /\ formattedPhone' = formatPhoneNumber(rawPhone)
    /\ UNCHANGED << subscriber, rawPhone >>

\* the value returned is passed to the function again
FormatAgain ==
    /\ formattedPhone # << >> /\ rawPhone # formattedPhone
    /\ rawPhone' = formattedPhone /\ formattedPhone' = << >>
    /\ UNCHANGED subscriber

NextPhone ==
    \/ \E n \in Subscribers, str \in UNION { PhoneForms(x) : x \in Subscribers } :
          WritePhone(n, str) /\ UNCHANGED notPhone
    \/ FormatPhoneNumber /\ UNCHANGED notPhone
    \/ FormatAgain /\ UNCHANGED notPhone

SpecPhone == InitPhone /\ [][NextPhone]_vars

----------------------------------------------------------------------------
(* The sync routes on their own *)

\* the sync routes on their own: the store is configured or not, the two
\* users exist, no payment is around
InitSync ==
    /\ Init
    /\ TEST_MODE

NextSync ==
    \/ \E token \in Tokens, body \in SyncBodies, ok \in BOOLEAN :
          PostSync(token, body, ok) /\ UNCHANGED notSync
    \/ \E token \in Tokens, ok \in BOOLEAN :
          GetTransactions(token, ok) /\ UNCHANGED notSync

SpecSync == InitSync /\ [][NextSync]_vars

----------------------------------------------------------------------------
(* signup on its own *)

\* an empty users table, no payment around
InitAuth ==
    /\ supabase \in {"client", "null"}
    /\ TEST_MODE = TRUE
    /\ users = [ u \in {} |-> Null ]
    /\ txns = << >> /\ issued = {} /\ timers = {}
    /\ sub = [ s \in SubProcs |-> IdleSub ] /\ cb = [ h \in CbProcs |-> IdleCb ]
    /\ replied = IdleSub /\ answered = IdleCb /\ query = NoQuery
    /\ effects = [ c \in CheckoutIds |-> 0 ] /\ nSub = 0 /\ nCb = 0
    /\ subscriber = << >> /\ rawPhone = << >> /\ formattedPhone = << >>
    /\ transactions = NoTransactions /\ synced = NoSync /\ listed = NoListing
    /\ signups = [ s \in SignupProcs |-> IdleSignup ] /\ registered = IdleSignup
    /\ nSignup = 0 /\ accounts = {}
    /\ NoLogins
    /\ NoPurchases
    /\ NoDebts
    /\ NoOtps

NextAuth ==
    \/ \E s \in SignupProcs, businessName \in SignupNames, phoneNumber \in SignupPhones,
          pin \in SignupPins, ok \in BOOLEAN :
          Signup(s, businessName, phoneNumber, pin, ok) /\ UNCHANGED notAuth
    \/ \E s \in SignupProcs, ok \in BOOLEAN : SignupInsert(s, ok) /\ UNCHANGED notAuth

SpecAuth == InitAuth /\ [][NextAuth]_vars

----------------------------------------------------------------------------
(* The auth routes together: signup, login, verify, profile *)

NextLogin ==
    \/ \E s \in SignupProcs, phoneNumber \in MemberPhones, pin \in MemberPins :
          Signup(s, "Shop", phoneNumber, pin, TRUE) /\ UNCHANGED notAuth
    \/ \E s \in SignupProcs, ok \in BOOLEAN : SignupInsert(s, ok) /\ UNCHANGED notAuth
    \/ \E l \in LoginProcs, phoneNumber \in LoginPhones, pin \in LoginPins, ok \in BOOLEAN :
          Login(l, phoneNumber, pin, ok) /\ UNCHANGED notLogin
    \/ \E l \in LoginProcs, ok \in BOOLEAN : LoginUpdate(l, ok) /\ UNCHANGED notLogin
    \/ \E token \in TokenInputs, ok \in BOOLEAN : VerifyToken(token, ok) /\ UNCHANGED notLogin
    \/ \E token \in TokenInputs, ok \in BOOLEAN : GetProfile(token, ok) /\ UNCHANGED notLogin
    \/ \E token \in sessions : TokenExpires(token) /\ UNCHANGED notLogin

SpecLogin == InitAuth /\ [][NextLogin]_vars

----------------------------------------------------------------------------
(* POST /api/purchases on its own *)

InitPurchase == Init /\ TEST_MODE = TRUE

NextPurchase ==
    \/ \E b \in PurchaseProcs, phoneNumber \in PhoneInputs, items \in ItemLists,
          ok \in BOOLEAN :
          PostPurchase(b, phoneNumber, items, ok) /\ UNCHANGED notPurchase
    \/ \E b \in PurchaseProcs, ok \in BOOLEAN :
          PostPurchaseHeader(b, ok) /\ UNCHANGED notPurchase
    \/ \E b \in PurchaseProcs, ok \in BOOLEAN :
          PostPurchaseItems(b, ok) /\ UNCHANGED notPurchase
    \/ \E b \in PurchaseProcs, ok \in BOOLEAN :
          PostPurchaseRollback(b, ok) /\ UNCHANGED notPurchase

SpecPurchase == InitPurchase /\ [][NextPurchase]_vars

----------------------------------------------------------------------------
(* The debt routes on their own *)

InitDebt == Init /\ TEST_MODE = TRUE

NextDebt ==
    \/ \E r \in DebtProcs, phoneNumber \in PhoneInputs, ok \in BOOLEAN :
          GetDebts(r, phoneNumber, ok) /\ UNCHANGED notDebt
    \/ \E r \in DebtProcs, ok \in BOOLEAN : GetDebtsSelect(r, ok) /\ UNCHANGED notDebt
    \/ \E r \in DebtProcs, phoneNumber \in PhoneInputs, customerName \in CustomerNames,
          amount \in DebtAmounts, ok \in BOOLEAN :
          PostDebt(r, phoneNumber, customerName, amount, ok) /\ UNCHANGED notDebt
    \/ \E r \in DebtProcs, ok \in BOOLEAN : PostDebtInsert(r, ok) /\ UNCHANGED notDebt
    \/ \E r \in DebtProcs, id \in DebtIdInputs, phoneNumber \in PhoneInputs, ok \in BOOLEAN :
          ClearDebt(r, id, phoneNumber, ok) /\ UNCHANGED notDebt
    \/ \E r \in DebtProcs, ok \in BOOLEAN : ClearDebtUpdate(r, ok) /\ UNCHANGED notDebt

SpecDebt == InitDebt /\ [][NextDebt]_vars

----------------------------------------------------------------------------
(* createOTP and verifyOTP on their own *)

InitOtp == Init /\ TEST_MODE = TRUE /\ supabase = "client"

NextOtp ==
    \/ \E p \in OtpProcs, phoneNumber \in OtpPhones, ok \in BOOLEAN :
          CreateOTP(p, phoneNumber, ok) /\ UNCHANGED notOtp
    \/ \E p \in OtpProcs, otpCode \in OtpCodes, ok \in BOOLEAN :
          CreateOTPInvalidate(p, otpCode, ok) /\ UNCHANGED notOtp
    \/ \E p \in OtpProcs, ok \in BOOLEAN : CreateOTPInsert(p, ok) /\ UNCHANGED notOtp
    \/ \E p \in OtpProcs, phoneNumber \in OtpPhones, otpCode \in OtpCodes, ok \in BOOLEAN :
          VerifyOTP(p, phoneNumber, otpCode, ok) /\ UNCHANGED notOtp
    \/ \E p \in OtpProcs, ok \in BOOLEAN : VerifyOTPAttempt(p, ok) /\ UNCHANGED notOtp
    \/ \E p \in OtpProcs, ok \in BOOLEAN : VerifyOTPMark(p, ok) /\ UNCHANGED notOtp
    \/ \E id \in DOMAIN otp_codes : OtpExpires(id) /\ UNCHANGED notOtp

SpecOtp == InitOtp /\ [][NextOtp]_vars

----------------------------------------------------------------------------
(* What the claims speak about *)

\* the payment rows with checkout id `id`
Rows(id) == Matching(txns, id)

\* the fields of a payment row that its resolution writes
Terminal(row) == << row.status, row.mpesa_receipt_number, row.transaction_date,
                    row.result_desc >>

\* handler h takes the step that leaves program point `pc`
Leaves(h, pc) == cb[h].pc = pc /\ cb'[h].pc # pc

\* the state of handler h after a step that it took
After(h) == IF cb'[h].pc = "idle" THEN answered' ELSE cb'[h]

\* the step answers a callback whose result code is not 0
AnswersFailure ==
    answered'.pc = "done" /\ ~answered'.result.threw /\ ~answered'.result.success

\* the acknowledgement the provider expects
Acknowledgement == [ status |-> 200, ResultCode |-> 0 ]

----------------------------------------------------------------------------
(* C1 - C3: the state machine of a payment row under callbacks *)

\* C1: the status of a payment row changes only from pending to completed or
\* from pending to failed; a row that is completed or failed keeps its status
\* under every later callback and self-resolution.
C1_StatusOnlyLeavesPending ==
    [][ \A i \in DOMAIN txns :
          /\ txns'[i].status \in {"pending", "completed", "failed"}
          /\ txns[i].status # "pending" => txns'[i].status = txns[i].status ]_vars

\* C2: a callback delivered again right after the same callback was handled
\* changes neither the resolution of the payment row nor applies the
\* subscription write again.
C2_RedeliveryChangesNothing ==
    [][ /\ \A h \in CbProcs :
             cb[h].dup /\ cb[h].alone /\ (Leaves(h, "update") \/ Leaves(h, "subscription"))
             => /\ effects' = effects
                /\ \A i \in Rows(cb[h].result.checkoutRequestId) :
                      Terminal(txns'[i]) = Terminal(txns[i])
        /\ AnswersFailure /\ answered'.dup
             => \A i \in Rows(answered'.result.checkoutRequestId) :
                   Terminal(txns'[i]) = Terminal(txns[i]) ]_vars

\* C3: when two callbacks with result code 0 for the same checkout id were in
\* flight together, found the row pending and met no store error, then once
\* both are answered the subscription write has been applied exactly once and
\* the row is completed.
C3_ConcurrentDuplicatesApplyOnce ==
    ( /\ answered.pc = "done" /\ answered.result.success
      /\ answered.conc /\ answered.pend /\ ~answered.fault
      /\ \A h \in CbProcs : ~InFlight(h, answered.result.checkoutRequestId) )
    => /\ effects[answered.result.checkoutRequestId] = 1
       /\ \A i \in Rows(answered.result.checkoutRequestId) : txns[i].status = "completed"

----------------------------------------------------------------------------
(* C4, C5: the callback endpoint as seen by the provider *)

\* C4: every callback that is answered is answered with HTTP 200 and
\* ResultCode 0, whether it was applied, named an unknown checkout id, met a
\* store error, or made the parser throw.
C4_AlwaysAcknowledged ==
    answered.pc = "done" => answered.res = Acknowledgement

\* a callback whose body made handleCallback throw has been answered
C4_Witness ==
    answered.pc = "done" /\ answered.result.threw /\ answered.res.status = 200

\* C5: a step of a callback whose checkout id matches no payment row changes
\* no payment row and no user, and its answer is the acknowledgement.
C5_UnknownIdChangesNothing ==
    [][ /\ \A h \in CbProcs :
             (Leaves(h, "update") \/ Leaves(h, "subscription"))
             /\ Rows(cb[h].result.checkoutRequestId) = {}
             => /\ txns' = txns /\ users' = users
                /\ answered'.pc = "done" => answered'.res = Acknowledgement
        /\ AnswersFailure /\ Rows(answered'.result.checkoutRequestId) = {}
             => txns' = txns /\ users' = users /\ answered'.res = Acknowledgement ]_vars

\* a callback with result code 0 for an unknown checkout id has been answered
\* while another payment row exists
C5_Witness ==
    /\ answered.pc = "done" /\ answered.result.success
    /\ Rows(answered.result.checkoutRequestId) = {}
    /\ txns # << >>

----------------------------------------------------------------------------
(* C6: the receipt number of a payment row *)

\* C6: a payment row has a receipt number if and only if it is completed.
C6_ReceiptIffCompleted ==
    \A i \in DOMAIN txns :
       txns[i].mpesa_receipt_number # Null <=> txns[i].status = "completed"

----------------------------------------------------------------------------
(* C7 - C9: what a callback writes *)

RowCompleted(id) ==
    Rows(id) # {} /\ \A i \in Rows(id) : txns[i].status = "completed"

\* C7: the subscription of the user is written only when the payment row is
\* completed at that moment, and the write of the subscription, failed or
\* not, leaves the payment row as it is.
C7_SubscriptionOnlyAfterCompleted ==
    [][ /\ \A h \in CbProcs :
             Leaves(h, "subscription")
             => RowCompleted(cb[h].result.checkoutRequestId) /\ txns' = txns
        /\ \A t \in timers :
             t.pc = "user" /\ t \notin timers'
             => RowCompleted(t.checkoutRequestId) /\ txns' = txns ]_vars

\* C8: a callback with a result code other than 0 changes no user, and, when
\* the store takes its write, every pending row of its checkout id becomes
\* failed with the result description of the callback body and is otherwise
\* unchanged.
C8_FailureCallback ==
    [][ AnswersFailure
        => /\ users' = users
           /\ effects' = effects
           /\ \A i \in Rows(answered'.result.checkoutRequestId) :
                 txns[i].status = "pending" /\ ~answered'.fault
                 => txns'[i] = [ txns[i] EXCEPT
                                   !.status = "failed",
                                   !.result_desc = answered'.payload.ResultDesc ] ]_vars

\* a failure callback for a pending row has been answered; the row is failed
\* and carries the description
C8_Witness ==
    /\ answered.pc = "done" /\ ~answered.result.threw /\ ~answered.result.success
    /\ answered.pend /\ ~answered.fault
    /\ \E i \in Rows(answered.result.checkoutRequestId) :
          txns[i].status = "failed" /\ txns[i].result_desc \in Descs

\* C9: when no store call of a callback with result code 0 fails, its update
\* makes every pending row of its checkout id completed with the receipt
\* number and the transaction date of the callback body and changes no user;
\* its subscription write sets the subscription of the owner of that row, and
\* of nobody else, to the account reference of the row; and a status request
\* answered with 200 reports the stored status and fields of the row.
C9_SuccessCallback ==
    [][ /\ \A h \in CbProcs :
             Leaves(h, "update") /\ ~After(h).fault
             => /\ users' = users
                /\ \A i \in Rows(cb[h].result.checkoutRequestId) :
                      txns[i].status = "pending"
                      => txns'[i] = [ txns[i] EXCEPT
                            !.status = "completed",
                            !.mpesa_receipt_number = cb[h].payload.MpesaReceiptNumber,
                            !.transaction_date = cb[h].payload.TransactionDate ]
        /\ \A h \in CbProcs :
             Leaves(h, "subscription") /\ ~After(h).fault
             => /\ txns' = txns
                /\ \A i \in Rows(cb[h].result.checkoutRequestId) :
                      users' = [ u \in UserIds |->
                                   IF u = txns[i].user_id
                                   THEN [ users[u] EXCEPT !.subscription_status =
                                                             txns[i].account_reference ]
                                   ELSE users[u] ]
        /\ query'.status = 200
             => \E i \in Rows(query'.checkoutRequestId) :
                   /\ query'.payment = txns[i].status
                   /\ query'.mpesa_receipt_number = txns[i].mpesa_receipt_number
                   /\ query'.transaction_date = txns[i].transaction_date ]_vars

\* without TEST MODE: after a callback with result code 0 a status request
\* reports the row completed with the receipt of the callback, the owner has
\* the plan of the row and the other user is still on trial
C9_Witness ==
    /\ ~TEST_MODE
    /\ query.status = 200 /\ query.payment = "completed"
    /\ query.mpesa_receipt_number \in Receipts /\ query.transaction_date \in Dates
    /\ \E i \in Rows(query.checkoutRequestId) :
          /\ effects[query.checkoutRequestId] = 1
          /\ users[txns[i].user_id].subscription_status = txns[i].account_reference
          /\ \E u \in UserIds \ {txns[i].user_id} : users[u].subscription_status = "trial"

----------------------------------------------------------------------------
(* C10: the answer of initiateSubscription *)

\* C10: when a subscribe request is answered with success and a checkout id,
\* a pending payment row with that checkout id, owned by the user with the
\* phone number of the request, is stored.
C10_SuccessMeansStored ==
    replied.pc = "done" /\ replied.res.success
    => \E i \in Rows(replied.res.checkoutRequestId) :
          /\ txns[i].status = "pending"
          /\ txns[i].user_id \in UsersWithPhone(users, replied.phoneNumber)

----------------------------------------------------------------------------
(* C11: subscribe requests that do not succeed *)

\* a subscribe request the handler has to refuse before it calls the provider
InvalidInput(r) ==
    \/ r.phoneNumber = Undefined \/ r.planId = Undefined
    \/ ~HasUser(users, r.phoneNumber)
    \/ r.planId \notin PricedPlans

\* C11: a subscribe request answered with a failure has stored no payment
\* row, changed no user and scheduled nothing; a request without phone number
\* or plan, for an unknown phone number or for a plan outside the price table
\* is answered with a failure and without any request to the provider; and a
\* request whose token request or push request failed is answered with a
\* failure.
C11_FailedInitiateChangesNothing ==
    [][ replied'.pc = "done"
        => /\ ~replied'.res.success
                => txns' = txns /\ users' = users /\ timers' = timers
           /\ InvalidInput(replied')
                => /\ ~replied'.res.success
                   /\ replied'.outcome = "none" /\ replied'.outbound = << >>
           /\ replied'.outcome \in {"auth_failed", "rejected", "no_response"}
                => ~replied'.res.success ]_vars

----------------------------------------------------------------------------
(* C12: one payment row per checkout id *)

\* a step of mpesaCallback
CallbackStep ==
    \/ nCb' # nCb
    \/ \E h \in CbProcs : Leaves(h, "update") \/ Leaves(h, "subscription")

\* C12: after every step no two payment rows have the same checkout id, and
\* a step of a callback leaves the number of payment rows as it is.
C12_OneRowPerCheckoutId ==
    [][ /\ \A i, j \in DOMAIN txns' :
             txns'[i].checkout_request_id = txns'[j].checkout_request_id => i = j
        /\ CallbackStep => Len(txns') = Len(txns) ]_vars

\* two subscribe requests were given the same checkout id; the second, of
\* another user, has been answered and the only row is that of the first
C12_Witness ==
    /\ nSub = 2 /\ Cardinality(issued) = 1
    /\ replied.pc = "done" /\ replied.res.success
    /\ Len(txns) = 1
    /\ txns[1].checkout_request_id = replied.checkoutRequestId
    /\ txns[1].user_id # replied.user

----------------------------------------------------------------------------
(* C13: a payment row after its resolution *)

\* C13: no step removes a payment row or changes its checkout id, and a row
\* that is no longer pending, resolved by a callback or by the TEST MODE
\* auto-completion, is changed in no field by any later step.
C13_ResolvedRowNeverChanges ==
    [][ /\ Len(txns') >= Len(txns)
        /\ \A i \in DOMAIN txns :
             /\ txns'[i].checkout_request_id = txns[i].checkout_request_id
             /\ txns[i].status # "pending" => txns'[i] = txns[i] ]_vars

----------------------------------------------------------------------------
(* C14: the status request *)

\* C14: a status request changes no row, no user and no timer; when the store
\* is configured and answers, a request for an id with a payment row is
\* answered with 200 and the stored status, receipt number, transaction date
\* and result description of that row, and a request for an id without a
\* payment row is answered with 404.
C14_StatusIsPureRead ==
    [][ query'.status # 0
        => /\ UNCHANGED << users, txns, timers, issued, effects, sub, cb >>
           /\ query'.status \in {200, 404, 500}
           /\ query'.status = 500 <=> supabase = "null"
           /\ query'.status = 200
                => \E i \in Rows(query'.asked) :
                      /\ query'.payment = txns[i].status
                      /\ query'.mpesa_receipt_number = txns[i].mpesa_receipt_number
                      /\ query'.transaction_date = txns[i].transaction_date
                      /\ query'.result_desc = txns[i].result_desc
           /\ supabase = "client" /\ ~query'.fault
                => (query'.status = 200 <=> Rows(query'.asked) # {}) ]_vars

\* a status request for a row that no callback and no auto-completion has
\* touched yet was answered: pending, with no receipt number, transaction
\* date or result description
C14_Witness ==
    /\ query.status = 200 /\ query.payment = "pending"
    /\ query.mpesa_receipt_number = Null /\ query.transaction_date = Null
    /\ query.result_desc = Null
    /\ nCb = 0 /\ \E i \in Rows(query.asked) : txns[i].status = "pending"

----------------------------------------------------------------------------
(* C15: formatPhoneNumber *)

\* C15: whichever way the subscriber number is written (with leading 0,
\* bare, with 254, with +254, with a space or a dash), the function returns
\* 254 followed by the subscriber number, and given that value it returns it
\* unchanged.
C15_OneCanonicalForm ==
    [][ formattedPhone' # << >>
        => /\ formattedPhone' = CountryCode \o subscriber'
           /\ rawPhone' = CountryCode \o subscriber' => formattedPhone' = rawPhone' ]_vars

\* the function was given 254 followed by the subscriber number and returned
\* its argument
C15_Witness ==
    /\ rawPhone = CountryCode \o subscriber
    /\ formattedPhone = rawPhone
    /\ subscriber # << >>

----------------------------------------------------------------------------
(* C16, C17: initiateSTKPush *)

\* the subscribe request whose call of initiateSTKPush returns in this step
Pushed(s) == IF sub'[s].pc = "insert" THEN sub'[s] ELSE replied'

\* C16: a push the provider rejects raises nothing and returns a failure with
\* the error text of the provider; a push that gets no response from the
\* provider raises UpstreamUnavailableError; nothing else is ever raised.
C16_OnlyTransportFaultsRaise ==
    [][ \A s \in SubProcs :
          sub[s].pc = "push" /\ sub'[s].pc # "push"
          => /\ Pushed(s).outcome = "rejected"
                  => /\ Pushed(s).result.raised = "none"
                     /\ ~Pushed(s).result.success
                     /\ Pushed(s).result.message = ProviderErrorMessage
             /\ Pushed(s).outcome = "no_response"
                  => Pushed(s).result.raised = "UpstreamUnavailableError"
             /\ Pushed(s).result.raised \in {"none", "UpstreamUnavailableError"} ]_vars

\* C17: in TEST MODE every call of initiateSTKPush returns success with a
\* TEST_CO_ id, sends nothing to the provider, and the id is one that no
\* earlier call returned.
C17_SandboxIdsDistinct ==
    [][ \A s \in SubProcs :
          TEST_MODE /\ sub[s].pc = "push" /\ sub'[s].pc # "push"
          => /\ Pushed(s).result.success
             /\ Pushed(s).outbound = << >>
             /\ Pushed(s).result.checkoutRequestId \in TestIds
             /\ Pushed(s).result.checkoutRequestId \notin issued ]_vars

----------------------------------------------------------------------------
(* C18: what the payment handlers change of a user *)

\* the step writes the subscription for checkout id `id`
Resolving(id) ==
    \/ \E h \in CbProcs :
          Leaves(h, "subscription") /\ cb[h].result.checkoutRequestId = id
    \/ \E t \in timers :
          t.pc = "user" /\ t \notin timers' /\ t.checkoutRequestId = id

\* C18: every step of a subscribe request, a callback, a status request or
\* an auto-completion keeps every user and changes of a user at most the
\* subscription status, and only of the user who owns the payment row of
\* the checkout id the step resolves.
C18_OnlyOwnersSubscriptionChanges ==
    [][ \A u \in DOMAIN users :
          /\ u \in DOMAIN users'
          /\ users'[u] = [ users[u] EXCEPT
                             !.subscription_status = users'[u].subscription_status ]
          /\ users'[u] # users[u]
               => \E id \in CheckoutIds :
                     Resolving(id) /\ \E i \in Rows(id) : txns[i].user_id = u ]_vars

----------------------------------------------------------------------------
(* C19: synced transactions of different users *)

\* C19: a sync answered with success has stored every transaction of its body
\* under the user of the token; a listing answered with success holds exactly
\* the stored transactions of the user of the token; and a sync leaves every
\* transaction stored under another user in place, with its owner and its
\* amount.
C19_SyncIsolatedPerUser ==
    [][ /\ synced'.status = 200
             => \A i \in DOMAIN synced'.body :
                   /\ synced'.body[i].id \in DOMAIN transactions'
                   /\ transactions'[synced'.body[i].id].user_id = synced'.userId
        /\ listed'.status = 200
             => /\ \A r \in listed'.transactions : r.user_id = listed'.userId
                /\ listed'.transactions = TransactionsOf(transactions, listed'.userId)
        /\ synced'.status # 0
             => \A id \in DOMAIN transactions :
                   transactions[id].user_id # synced'.userId
                   => /\ id \in DOMAIN transactions'
                      /\ transactions'[id] = transactions[id] ]_vars

----------------------------------------------------------------------------
(* C20: one user per phone number *)

\* a signup request that passes the validation of its fields
WellFormedSignup(r) ==
    /\ r.businessName # "" /\ MatchesPhoneRegex(r.phoneNumber) /\ MatchesPinRegex(r.pin)

\* C20: after every step no two users have the same phone number; and a
\* well-formed signup whose store calls answered, for a phone number that is
\* registered when the signup is answered, is answered with 409 and leaves
\* the users as they are, also when another signup for that number is in flight.
C20_OneUserPerPhone ==
    [][ /\ \A a, b \in DOMAIN users' :
             users'[a].phone_number = users'[b].phone_number => a = b
        /\ ( /\ registered'.pc = "done" /\ ~registered'.fault
              /\ supabase # "null" /\ WellFormedSignup(registered')
              /\ UsersWithPhone(users, registered'.phoneNumber) # {} )
             => registered'.res.status = 409 /\ users' = users ]_vars

----------------------------------------------------------------------------
(* C21, C22: login after signup, and logins that fail *)

\* this step answers a login request / a verify or profile request
LoginAnswered ==
    /\ logged'.pc = "done"
    /\ \/ nLogin' # nLogin
       \/ \E l \in LoginProcs : logins[l].pc = "update" /\ logins'[l].pc = "idle"
VerifyAnswered == nVerify' # nVerify

\* C21: a login with the phone number and the PIN of an earlier signup that
\* was answered 201 is answered 200 with the user id of that signup (its
\* select answering), whatever other signups and logins happened; and a
\* token returned by a login, while it has not expired, is accepted by verify
\* and profile, which answer 200 with the data of that user.
C21_LoginAfterSignup ==
    [][ /\ ( LoginAnswered /\ ~logged'.fault /\ logged'.pin.type = "string" )
             => \A a \in accounts :
                   a.phoneNumber = logged'.phoneNumber /\ a.pin = logged'.pin.digits
                   => /\ logged'.status = 200
                      /\ logged'.userId = a.userId
                      /\ logged'.token.userId = a.userId
                      /\ logged'.token \in sessions'
        /\ ( VerifyAnswered /\ ~verified'.fault /\ verified'.token \in sessions \ lapsed )
             => /\ verified'.status = 200
                /\ verified'.data.userId = verified'.token.userId
                /\ \E a \in accounts :
                      /\ a.userId = verified'.data.userId
                      /\ a.phoneNumber = verified'.data.phoneNumber
                /\ verified'.data.subscriptionStatus
                      = users[verified'.token.userId].subscription_status
                /\ verified'.data.businessName = users[verified'.token.userId].business_name ]_vars

\* two users have signed up, one of them has logged in after the other's
\* signup, and profile has answered that login's token with the user's data
C21_Witness ==
    /\ Cardinality(accounts) = 2
    /\ verified.endpoint = "profile" /\ verified.status = 200
    /\ verified.token \in sessions
    /\ verified.data.lastLogin > NeverLoggedIn
    /\ logged.status = 200 /\ logged.token = verified.token
    /\ \E a \in accounts : a.userId = "u4" /\ a.userId = logged.userId

\* the login request r names no registered phone number, or a registered one
\* with something else than its PIN
FailedLogin(r) ==
    \/ ~HasUser(users, r.phoneNumber)
    \/ r.pin.type # "string"
    \/ users[UserId(users, r.phoneNumber)].pin # HashPin(r.pin.digits)

InvalidCredentials == "Invalid phone number or PIN"

\* C22: a login (both fields present, store configured and answering) for an
\* unregistered phone number or with a wrong PIN is answered 401 with the one
\* message and changes no user; last_login of a user changes only in a step
\* that answers a login of that user with 200.
C22_FailedLoginRevealsNothing ==
    [][ /\ ( /\ LoginAnswered /\ ~logged'.fault /\ supabase # "null"
              /\ logged'.phoneNumber # << >> /\ logged'.pin.digits # << >>
              /\ FailedLogin(logged') )
             => /\ logged'.status = 401
                /\ logged'.message = InvalidCredentials
                /\ users' = users
        /\ \A id \in DOMAIN users :
             users'[id].last_login # users[id].last_login
             => LoginAnswered /\ logged'.status = 200 /\ logged'.userId = id ]_vars

----------------------------------------------------------------------------
(* C23: where a subscription comes from *)

\* C23: in every reachable state a user whose subscription_status is not
\* 'trial' owns a payment row that is completed and whose account_reference
\* is that status.
C23_TierBackedByCompletedPayment ==
    \A u \in DOMAIN users :
       users[u].subscription_status # "trial"
       => \E i \in DOMAIN txns :
             /\ txns[i].user_id = u
             /\ txns[i].status = "completed"
             /\ txns[i].account_reference = users[u].subscription_status

----------------------------------------------------------------------------
(* C24: a purchase and its items *)

\* this step answers a POST /api/purchases request
PurchaseAnswered ==
    bought'.pc = "done" /\ \E b \in PurchaseProcs : buying[b] # buying'[b] \/ nPurchase' # nPurchase

\* C24: when POST /api/purchases is answered, either the header and one row
\* per item of the request are stored and the header's total_amount is the
\* sum of the rows' total_price, or no row of that purchase is stored; the
\* answer is 201 only in the first case.
C24_PurchaseAllOrNothing ==
    [][ PurchaseAnswered
        => LET id   == bought'.purchaseId
               rows == ItemsOf(purchaseItems', id)
           IN  \/ /\ id \in DOMAIN purchases'
                  /\ Cardinality(rows) = Len(bought'.items)
                  /\ \A i \in DOMAIN bought'.items :
                        \E r \in rows : /\ r.line = i
                                         /\ r.item_name = bought'.items[i].itemName
                                         /\ r.total_price = bought'.items[i].totalPrice
                  /\ purchases'[id].total_amount = totalAmount(bought'.items)
                  /\ bought'.status = 201
               \/ /\ id \notin DOMAIN purchases'
                  /\ rows = {}
                  /\ bought'.status # 201 ]_vars

----------------------------------------------------------------------------
(* C25, C26: the life of a debt *)

\* this step answers a request of routes/debts.js on the given route
DebtAnswered(route) ==
    /\ debtAnswer'.pc = "done" /\ debtAnswer'.route = route
    /\ nDebt' # nDebt \/ \E r \in DebtProcs : debtReqs[r].pc = "store" /\ debtReqs'[r].pc = "idle"

\* C25: a debt is created pending, no debt disappears, the status of a debt
\* changes only from pending to cleared, and a list answered by GET /debts
\* holds only debts of the user of the request that are pending.
C25_DebtPendingThenCleared ==
    [][ /\ \A id \in DOMAIN debts' \ DOMAIN debts : debts'[id].status = "pending"
        /\ \A id \in DOMAIN debts :
             /\ id \in DOMAIN debts'
             /\ debts'[id].status # debts[id].status
                => debts[id].status = "pending" /\ debts'[id].status = "cleared"
        /\ DebtAnswered("list")
             => \A id \in debtAnswer'.debts :
                   /\ id \in DOMAIN debts
                   /\ debts[id].status = "pending"
                   /\ debts[id].user_id = debtAnswer'.userId
                   /\ users[debts[id].user_id].phone_number = debtAnswer'.phoneNumber ]_vars

\* GET /debts has answered a user with a pending debt while that user has a
\* cleared debt as well
C25_Witness ==
    /\ debtAnswer.pc = "done" /\ debtAnswer.route = "list" /\ debtAnswer.status = 200
    /\ debtAnswer.debts # {}
    /\ \E id \in DOMAIN debts :
          debts[id].user_id = debtAnswer.userId /\ debts[id].status = "cleared"

\* C26: a clear request (phone number of a user, store answering) that names
\* a debt that does not exist or that another user owns leaves every debt
\* as it is and is answered 404 'Debt not found'.
C26_ClearOnlyOwnDebt ==
    [][ ( /\ DebtAnswered("clear") /\ ~debtAnswer'.fault
          /\ debtAnswer'.userId # Undefined
          /\ DebtsMatching(debts, debtAnswer'.id, debtAnswer'.userId) = {} )
        => /\ debts' = debts
           /\ debtAnswer'.status = 404
           /\ debtAnswer'.message = "Debt not found" ]_vars

----------------------------------------------------------------------------
(* OTP codes *)

\* call p of verifyOTP selects an OTP in this step and finds the code right:
\* the call returns success
OtpAccepted(p) == otpCalls[p].pc = "idle" /\ otpCalls'[p].pc = "mark"

\* call p of verifyOTP returns 'Invalid OTP code.' in this step
OtpRefused(p) == otpCalls[p].pc = "attempt" /\ otpCalls'[p].pc = "idle"

\* C27: an OTP accepts at most 5 wrong guesses: while the store answers every
\* call, no verification is accepted for an OTP that has been answered
\* 'Invalid OTP code.' 5 times, and every call answered 'Invalid OTP code.'
\* raises the stored attempts of its OTP by exactly one, also when calls for
\* the same phone number run concurrently
C27_OtpAttemptLimit ==
    [][ otpFaults' = 0 =>
          \A p \in OtpProcs :
              /\ OtpAccepted(p) => failures[otpCalls'[p].id] < MaxAttempts
              /\ OtpRefused(p) =>
                     otp_codes'[otpCalls[p].id].attempts
                         = otp_codes[otpCalls[p].id].attempts + 1 ]_vars

\* C28: an OTP is usable once and only while it is the latest: while the
\* store answers every call, no verification is accepted for an OTP that an
\* earlier call has accepted, and every phone number has at most one
\* unverified OTP, also when calls for the same phone number run concurrently
C28_OtpOnceAndLatest ==
    [][ otpFaults' = 0 =>
          /\ \A p \in OtpProcs : OtpAccepted(p) => otpCalls'[p].id \notin used
          /\ \A phoneNumber \in OtpPhones :
                 Cardinality(Unverified(otp_codes', phoneNumber)) <= 1 ]_vars


====
